---- MODULE Spec2Model ----
(***************************************************************************)
(* A model of the durability and indexing core of the message store:      *)
(*   - the write batch and its deduplication (src/batch.go),               *)
(*   - the write-ahead log front end (src/wal/wal.go),                     *)
(*   - the hash index with overflow chaining and splits (src/db.go),       *)
(*   - the sync engine that drains the memtable into the data, index and   *)
(*     window files (src/db_sync.go).                                      *)
(* Each subsystem has its own variables, its own initial predicate and its *)
(* own next-state relation; a specification of one subsystem leaves the    *)
(* variables of the others at their initial values.                        *)
(***************************************************************************)
EXTENDS Integers, Sequences, FiniteSets, TLC

(***************************************************************************)
(* Variables of the write batch (src/batch.go, type Batch).                *)
(***************************************************************************)
VARIABLES
  index,            \* Batch.index: sequence of batchIndex records
  pendingWrites,    \* Batch.pendingWrites
  size,             \* Batch.size
  entryCount,       \* batchInfo.entryCount
  allowDuplicates,  \* BatchOptions.AllowDuplicates
  uniqDone,         \* history: uniq ran and the batch was not changed since
  uniqInput         \* history: the value of index when uniq last ran

batchVars == <<index, pendingWrites, size, entryCount, allowDuplicates,
               uniqDone, uniqInput>>

(***************************************************************************)
(* Variables of the write-ahead log (src/wal/wal.go, type WAL).            *)
(***************************************************************************)
VARIABLES
  walUp,            \* a WAL object exists (the process runs and New returned)
  logBlocks,        \* logStore: the time-id each log block is tagged with, 0 = free
  storeClosed,      \* logStore.close() has run on this WAL object
  logCountWritten,  \* WALInfo.logCountWritten
  logCountApplied,  \* WALInfo.logCountApplied
  entriesWritten,   \* WALInfo.entriesWritten
  entriesApplied,   \* WALInfo.entriesApplied
  recoveredTimeIDs, \* WAL.recoveredTimeIDs
  closed,           \* WAL.closed (0 or 1)
  wg,               \* the counter of WAL.wg
  muReaders,        \* the number of holders of WAL.mu's read lock
  optsReset,        \* Options.Reset of the last New
  nextTimeID,       \* the next time-id a caller of put uses
  sigPc,            \* position of each goroutine inside SignalLogApplied
  sigT,             \* its timeID argument
  sigTmp,           \* the value of logCountApplied it loaded for the increment
  closePc,          \* position of the goroutine inside Close
  putOk,            \* history: time-ids whose put returned nil (since the last reset)
  sigCalled,        \* history: time-ids SignalLogApplied was called for
  sigReturned,      \* history: time-ids SignalLogApplied returned for
  openSnap,         \* history: putOk, sigCalled, sigReturned when New ran
  delAfterClose,    \* history: logStore.del ran after logStore.close
  sigCalls,         \* history: number of SignalLogApplied calls made
  opens             \* history: number of New calls made

walStore == <<logBlocks, logCountWritten, logCountApplied, entriesWritten,
              entriesApplied>>

walVars == <<walUp, logBlocks, storeClosed, logCountWritten, logCountApplied,
             entriesWritten, entriesApplied, recoveredTimeIDs, closed, wg,
             muReaders, optsReset, nextTimeID, sigPc, sigT, sigTmp, closePc,
             putOk, sigCalled, sigReturned, openSnap, delAfterClose, sigCalls,
             opens>>

(***************************************************************************)
(* Variables of the hash index (src/db.go, type DB and its index and data  *)
(* files).                                                                 *)
(***************************************************************************)
VARIABLES
  putVersion,       \* which of the two DB.put of src/db.go the store runs (1 or 2)
  hashSeed,         \* DB.hashSeed
  level,            \* DB.level
  splitBlockIdx,    \* DB.splitBlockIdx
  nBlocks,          \* DB.nBlocks
  count,            \* DB.count
  indexBlk,         \* the index file: block idx i is indexBlk[i + 1]
  ovfBlk,           \* overflow blocks of the data file, by offset 1, 2, ...
  ovfFree,          \* overflow block offsets handed to data.free
  kv,               \* the data file: kv[kvOffset] is the key and value written there
  filter,           \* the hashes appended to DB.filter
  written,          \* history: the payload last put for each key, 0 = never put
  getKey,           \* history: the key of the Get that ran last, 0 = a put ran since
  getRet            \* history: what that Get returned, 0 = nil

indexVars == <<putVersion, hashSeed, level, splitBlockIdx, nBlocks, count,
               indexBlk, ovfBlk, ovfFree, kv, filter, written, getKey, getRet>>

(***************************************************************************)
(* Variables of the sync engine (src/db_sync.go, types internal and        *)
(* syncHandle) and of the parts of the DB it works on.                     *)
(***************************************************************************)
VARIABLES
  dbSeq,            \* DB.seq(): the last sequence number given to an entry
  mem,              \* DB.mem: the seqs held by the memtable
  window,           \* DB.timeWindow: the window entries (seqs) not yet drained
  logs,             \* the WAL: for each time-id the seqs of its unapplied logs
  dbLogSeq,         \* the time-id under which batches are committed now
  dbCount,          \* DB.count
  blockIdx,         \* DB.blockIdx, read by DB.blocks()
  dataFile,         \* the data file: the seqs whose messages were written, in order
  indexFile,        \* the index file: the seqs of the entries in its blocks
  indexSize,        \* the index file: its size in blocks
  winFile,          \* the window file: the seqs of the window entries written
  dataDur,          \* the data file as of its last fsync
  indexDur,         \* the index file entries as of the last fsync
  indexSizeDur,     \* the index file size as of the last fsync
  winDur,           \* the window file as of its last fsync
  startBlockIdx,    \* internal.startBlockIdx
  lastSyncSeq,      \* internal.lastSyncSeq
  hLogSeq,          \* internal.logSeq
  syncStatusOk,     \* internal.syncStatusOk
  syncComplete,     \* internal.syncComplete
  hCount,           \* internal.count
  rawData,          \* internal.rawData: seqs appended by the data writer
  rawBlock,         \* internal.rawBlock: seqs appended by the block writer
  rawWindow,        \* internal.rawWindow: seqs appended by the window writer
  winOff,           \* internal.winOff
  blockOff,         \* internal.blockOff
  dataOff,          \* internal.dataOff
  upperSeq,         \* blockWriter.UpperSeq()
  pc,               \* position of the goroutine that runs DB.Sync
  todo,             \* topics of the window map the callback has not visited
  err1,             \* Sync's local err1 is not nil
  flushFrom,        \* which call of syncHandle.sync runs: "each" or "final"
  drainedNow,       \* history: window entries visited by this Sync call
  failedNow,        \* history: a step of this Sync call failed
  signalledNow,     \* history: this Sync call called SignalLogApplied
  syncRet,          \* history: what this Sync call returned: "none", "nil", "err"
  startSizes,       \* history: the file sizes and blockIdx when startSync ran
  abortRan,         \* history: the last step ran abort on an attempt not complete
  batches,          \* history: the seq sets of the batches committed
  syncs,            \* history: number of DB.Sync calls
  faults,           \* history: number of failures injected
  crashes,          \* history: number of crashes
  recovered         \* history: the last step reopened the DB after a crash

syncFiles == <<dataFile, indexFile, indexSize, winFile, dataDur, indexDur,
               indexSizeDur, winDur>>

syncHandle == <<startBlockIdx, lastSyncSeq, hLogSeq, syncStatusOk, syncComplete,
                hCount, rawData, rawBlock, rawWindow, winOff, blockOff, dataOff,
                upperSeq>>

syncVars == <<dbSeq, mem, window, logs, dbLogSeq, dbCount, blockIdx, syncFiles,
              syncHandle, pc, todo, err1, flushFrom, drainedNow, failedNow,
              signalledNow, syncRet, startSizes, abortRan, batches, syncs,
              faults, crashes, recovered>>

(***************************************************************************)
(* Variables of the expirer (src/db_sync.go, DB.expireEntries) and of the  *)
(* parts of the DB it reads: the expiry list of the time window, the       *)
(* filter, the index file and the lease.                                   *)
(***************************************************************************)
VARIABLES
  expSeq,           \* the last sequence number given to an entry
  expNow,           \* the clock
  expWindow,        \* timeWindow: the (seq, expiresAt) pairs awaiting expiry
  expMem,           \* the seqs written but not yet synced to the index file
  expFilter,        \* DB.filter: the seqs appended to it
  expIndex,         \* the index file: the msgOffset of each seq's entry, 0 = no entry
  expBlocks,        \* the index file: its size in blocks
  expCount,         \* DB.count
  expFreed,         \* the seqs whose message was handed to lease.free
  expDrained        \* history: the entries expireOldEntries handed out last

expireVars == <<expSeq, expNow, expWindow, expMem, expFilter, expIndex,
                expBlocks, expCount, expFreed, expDrained>>

(***************************************************************************)
(* Variables of the topic trie (src/message/trie.go, types Trie and part)  *)
(* and of the goroutines that call into it.                                *)
(***************************************************************************)
VARIABLES
  trNodes,          \* the parts ever allocated: trNodes[1] is partTrie.root
  trCount,          \* Trie.count
  trMu,             \* the contracts whose mutex (Trie.GetMutex) is held
  trPc,             \* position of each goroutine inside Add or Remove
  trArg,            \* the arguments of its call
  trCurr,           \* its local curr
  trI,              \* the number of parts its loop has consumed
  trProcs,          \* the goroutines that call into the trie
  trKeys,           \* the (query, wildchars) pairs the callers' parts are made of
  trContracts,      \* the contracts the callers pass
  trSeqs,           \* the message seqs the callers pass
  trLast,           \* history: the call of Add or Remove that returned last
  trLook,           \* history: the Lookup that ran after it, and its result
  trOps,            \* history: the number of Add and Remove calls
  trNet             \* history: the Adds that returned less the Removes that returned true

trieVars == <<trNodes, trCount, trMu, trPc, trArg, trCurr, trI, trProcs,
              trKeys, trContracts, trSeqs, trLast, trLook, trOps, trNet>>

(***************************************************************************)
(* State of the write path of src/batch.go: the batches of one DB, the     *)
(* goroutines that run PutEntry, DeleteEntry, Write and Commit on them,    *)
(* and the parts of the DB that Write and Commit touch.                    *)
(***************************************************************************)
VARIABLES
  wrBatch,          \* the Batch objects: index, buffer, size, entryCount, topics, ...
  wrPc,             \* position of each batch's goroutine inside Write
  wrErr,            \* the error the Write in progress is going to return
  wrLock,           \* DB.writeLockC: the number of tokens in the channel
  wrQueue,          \* DB.batchQueue: the grouped batches handed to the group
  wrSeq,            \* the last sequence number setEntry gave to an entry
  wrCacheID,        \* DB.cacheID
  wrDb,             \* what Write and Commit leave in the DB: memtable, trie, window, deletions, log
  wrComplete,       \* whether each batch's commitComplete channel is closed
  wrWrote,          \* history: the result of each batch's Write, once it returned
  wrAfter,          \* history: the batches whose Write had returned when this one started, and 0 when the DB was closed by then
  wrCommit,         \* history: each batch's Commit call, once it returned
  wrLast,           \* history: the PutEntry or DeleteEntry call that returned last
  wrProcs,          \* the batches whose goroutines run
  wrFaults          \* the calls inside PutEntry and DeleteEntry that may fail

writeVars == <<wrBatch, wrPc, wrErr, wrLock, wrQueue, wrSeq, wrCacheID, wrDb,
               wrComplete, wrWrote, wrAfter, wrCommit, wrLast, wrProcs,
               wrFaults>>

(***************************************************************************)
(* State of Open and Close of src/db.go: the files and the lock file of    *)
(* one path, the DB object Open returned, and the background goroutines    *)
(* Open started; and the header that is marshalled into the index file.    *)
(***************************************************************************)
VARIABLES
  lcVer,            \* which code runs: 1 and 2 are the two halves of src/db.go, 3 has the loops of src/db_sync.go
  lcDisk,           \* the path: index header, data file, lock file, file handles left open
  lcDb,             \* the DB object Open returned
  lcBg,             \* position of the syncer and of the expirer goroutine
  lcLate,           \* history: the goroutines that used a file after Close closed it
  lcOpened,         \* history: the Open call that returned last
  lcClosed,         \* history: the Close call that returned last
  hdIn,             \* the header given to MarshalBinary
  hdBuf,            \* the bytes MarshalBinary returned
  hdOut,            \* the header UnmarshalBinary filled from hdBuf
  hdBuf2,           \* the bytes MarshalBinary returned for hdOut
  abLast,           \* history: the abort of src/db_sync.go that ran last, with the calls it made
  plBatch,          \* the batches of the buffer pool model: b.db, b.buffer, pendingWrites
  plPool,           \* BufferPool.buf: the buffers in the pool's channel
  plFresh,          \* the number of buffers Get has created
  plLast,           \* history: the Commit, Abort or Reset call that ran last
  tlCount,          \* _LogOptions.logCount: the number of dispatchers
  tlWriteQ,         \* _LogPool.writeQueue: the tiny logs in it, and whether it is closed
  tlLogQ,           \* _LogPool.logQueue: the tiny logs in it, and whether it is closed
  tlStop,           \* _LogPool.stop is closed
  tlWg,             \* _LogPool.stopWg
  tlPc,             \* position of the write loop, of the commit loop and of the caller of close
  tlDisp,           \* position of each dispatcher and the tiny log it holds
  tlLog,            \* _LogPool.tinyLog: the number of the current tiny log
  tlQueued,         \* history: the tiny logs sent to writeQueue
  tlCommitted,      \* history: the tiny logs handed to tinyCommit
  tlPanic,          \* history: the panic that ended the program, "none" if there was none
  eoTodo,           \* expireOldEntries: for each expired entry still to visit, whether it passes the filter
  eoPc,             \* position of the goroutine that runs expireOldEntries
  eoMu,             \* DB.mu: "free" or the goroutine that holds it
  eoDefers,         \* the deferred db.mu.Unlock() calls of expireOldEntries
  eoLater           \* position of a goroutine that calls put, delete, Get or Close

openVars == <<lcVer, lcDisk, lcDb, lcBg, lcLate, lcOpened, lcClosed,
              hdIn, hdBuf, hdOut, hdBuf2, abLast, plBatch, plPool, plFresh, plLast,
              tlCount, tlWriteQ, tlLogQ, tlStop, tlWg, tlPc, tlDisp, tlLog, tlQueued,
              tlCommitted, tlPanic, eoTodo, eoPc, eoMu, eoDefers, eoLater>>

vars == <<batchVars, walVars, indexVars, syncVars, expireVars, trieVars,
          writeVars, openVars>>

(***************************************************************************)
(* Initial values a subsystem keeps while another subsystem is checked.    *)
(***************************************************************************)
BatchIdle ==
  /\ index = <<>>
  /\ pendingWrites = <<>>
  /\ size = 0
  /\ entryCount = 0
  /\ allowDuplicates = FALSE
  /\ uniqDone = FALSE
  /\ uniqInput = <<>>

\* Bound: the number of log blocks of the log file.
NLogBlocks == 3

\* Bound: the number of goroutines that call SignalLogApplied.
NSignalers == 2

LogBlockIDs == 1..NLogBlocks
Signalers == 1..NSignalers

WalIdle ==
  /\ walUp = FALSE
  /\ logBlocks = [b \in LogBlockIDs |-> 0]
  /\ storeClosed = FALSE
  /\ logCountWritten = 0
  /\ logCountApplied = 0
  /\ entriesWritten = 0
  /\ entriesApplied = 0
  /\ recoveredTimeIDs = {}
  /\ closed = 0
  /\ wg = 0
  /\ muReaders = 0
  /\ optsReset = FALSE
  /\ nextTimeID = 1
  /\ sigPc = [p \in Signalers |-> "idle"]
  /\ sigT = [p \in Signalers |-> 0]
  /\ sigTmp = [p \in Signalers |-> 0]
  /\ closePc = "idle"
  /\ putOk = {}
  /\ sigCalled = {}
  /\ sigReturned = {}
  /\ openSnap = [put |-> {}, called |-> {}, returned |-> {}]
  /\ delAfterClose = FALSE
  /\ sigCalls = 0
  /\ opens = 0

\* Bound: keys 1..MaxPuts are put, in this order.
MaxPuts == 32

\* entriesPerBlock of src/db.go
entriesPerBlock == 22

EmptyEntry == [hash |-> 0, kvOffset |-> 0]
EmptyBlock == [entries |-> [i \in 1..entriesPerBlock |-> EmptyEntry], next |-> 0]

IndexIdle ==
  /\ putVersion = 1
  /\ hashSeed = 1
  /\ level = 0
  /\ splitBlockIdx = 0
  /\ nBlocks = 1
  /\ count = 0
  /\ indexBlk = <<EmptyBlock>>
  /\ ovfBlk = <<>>
  /\ ovfFree = {}
  /\ kv = <<>>
  /\ filter = {}
  /\ written = [k \in 1..MaxPuts |-> 0]
  /\ getKey = 0
  /\ getRet = 0

\* Bound: the write-ahead log sees time-ids 1..MaxLogSeq.
MaxLogSeq == 4

NoSizes == [data |-> 0, index |-> 1, window |-> 0, blockIdx |-> 0, count |-> 0]

SyncIdle ==
  /\ dbSeq = 0
  /\ mem = {}
  /\ window = {}
  /\ logs = [t \in 1..MaxLogSeq |-> {}]
  /\ dbLogSeq = 1
  /\ dbCount = 0
  /\ blockIdx = 0
  /\ dataFile = <<>>
  /\ indexFile = {}
  /\ indexSize = 1
  /\ winFile = <<>>
  /\ dataDur = <<>>
  /\ indexDur = {}
  /\ indexSizeDur = 1
  /\ winDur = <<>>
  /\ startBlockIdx = 0
  /\ lastSyncSeq = 0
  /\ hLogSeq = 0
  /\ syncStatusOk = FALSE
  /\ syncComplete = FALSE
  /\ hCount = 0
  /\ rawData = <<>>
  /\ rawBlock = <<>>
  /\ rawWindow = <<>>
  /\ winOff = 0
  /\ blockOff = 0
  /\ dataOff = 0
  /\ upperSeq = 0
  /\ pc = "idle"
  /\ todo = {}
  /\ err1 = FALSE
  /\ flushFrom = "each"
  /\ drainedNow = {}
  /\ failedNow = FALSE
  /\ signalledNow = FALSE
  /\ syncRet = "none"
  /\ startSizes = NoSizes
  /\ abortRan = FALSE
  /\ batches = {}
  /\ syncs = 0
  /\ faults = 0
  /\ crashes = 0
  /\ recovered = FALSE

\* Bound: the expirer sees entries with the sequence numbers 1..MaxExpSeq.
MaxExpSeq == 4

ExpireIdle ==
  /\ expSeq = 0
  /\ expNow = 1
  /\ expWindow = {}
  /\ expMem = {}
  /\ expFilter = {}
  /\ expIndex = [s \in 1..MaxExpSeq |-> 0]
  /\ expBlocks = 0
  /\ expCount = 0
  /\ expFreed = {}
  /\ expDrained = {}

\* Bound: the number of goroutines that call Add and Remove.
NTrieProcs == 2

TrieProcs == 1..NTrieProcs

\* A call that has not been made.
NoCall == [op |-> "none"]

\* NewPartTrie: the root has no key, no parent, no seqs and no children.
RootPart == [k |-> [query |-> 0, wildchars |-> 0], depth |-> 0, ss |-> <<>>,
             parent |-> 0, children |-> <<>>]

TrieIdle ==
  /\ trNodes = <<RootPart>>
  /\ trCount = 0
  /\ trMu = {}
  /\ trPc = [p \in TrieProcs |-> "idle"]
  /\ trArg = [p \in TrieProcs |-> NoCall]
  /\ trCurr = [p \in TrieProcs |-> 0]
  /\ trI = [p \in TrieProcs |-> 0]
  /\ trProcs = {}
  /\ trKeys = {}
  /\ trContracts = {}
  /\ trSeqs = {}
  /\ trLast = NoCall
  /\ trLook = NoCall
  /\ trOps = 0
  /\ trNet = 0

\* Bound: the number of batches of the DB, each run by its own goroutine.
NBatches == 2

Batches == 1..NBatches

\* A batch as NewBatch hands it out: nothing put, its buffer empty.
NewBatch(grouped) ==
  [index |-> <<>>, pendingWrites |-> <<>>, size |-> 0, entryCount |-> 0,
   buffer |-> <<>>, topics |-> {}, grouped |-> grouped, db |-> TRUE,
   calls |-> 0]

\* The DB before anything was written.
EmptyDb == [mem |-> {}, trie |-> {}, window |-> {}, deleted |-> {}, log |-> <<>>,
            closed |-> FALSE]

WriteIdle ==
  /\ wrBatch = [b \in Batches |-> NewBatch(FALSE)]
  /\ wrPc = [b \in Batches |-> "idle"]
  /\ wrErr = [b \in Batches |-> "nil"]
  /\ wrLock = 0
  /\ wrQueue = <<>>
  /\ wrSeq = 0
  /\ wrCacheID = 0
  /\ wrDb = EmptyDb
  /\ wrComplete = [b \in Batches |-> FALSE]
  /\ wrWrote = [b \in Batches |-> "none"]
  /\ wrAfter = [b \in Batches |-> {}]
  /\ wrCommit = [b \in Batches |-> NoCall]
  /\ wrLast = NoCall
  /\ wrProcs = {}
  /\ wrFaults = {}

\* No DB object: Open has not returned one.
NoDb == [state |-> "none"]

\* The goroutines Open can start.
Goroutines == {"syncer", "expirer"}

\* No header, no bytes.
NoHeader == [level |-> 0]

\* A batch that db.batch() has not created yet.
NoBatch == [state |-> "none", db |-> FALSE, buffer |-> 0, pending |-> FALSE, puts |-> 0,
            calls |-> 0]

poolVars == <<plBatch, plPool, plFresh, plLast>>

PoolIdle ==
  /\ plBatch = [b \in Batches |-> NoBatch]
  /\ plPool = <<>>
  /\ plFresh = 0
  /\ plLast = NoCall

\* Bound: the largest logCount.
MaxLogCount == 2

logVars == <<tlCount, tlWriteQ, tlLogQ, tlStop, tlWg, tlPc, tlDisp, tlLog, tlQueued,
             tlCommitted, tlPanic>>

\* A channel with nothing in it.
EmptyChan == [buf |-> <<>>, closed |-> FALSE]

LogIdle ==
  /\ tlCount = 0
  /\ tlWriteQ = EmptyChan
  /\ tlLogQ = EmptyChan
  /\ tlStop = FALSE
  /\ tlWg = 0
  /\ tlPc = [writer |-> "none", commit |-> "none", closer |-> "none"]
  /\ tlDisp = [d \in 1..MaxLogCount |-> [pc |-> "none", held |-> 0]]
  /\ tlLog = 0
  /\ tlQueued = {}
  /\ tlCommitted = {}
  /\ tlPanic = "none"

oldExpVars == <<eoTodo, eoPc, eoMu, eoDefers, eoLater>>

OldExpIdle ==
  /\ eoTodo = <<>>
  /\ eoPc = "none"
  /\ eoMu = "free"
  /\ eoDefers = 0
  /\ eoLater = "none"

OpenIdle ==
  /\ lcVer = 0
  /\ lcDisk = [index |-> "empty", data |-> "empty", lock |-> "free", leaked |-> {}]
  /\ lcDb = NoDb
  /\ lcBg = [g \in Goroutines |-> "none"]
  /\ lcLate = {}
  /\ lcOpened = NoCall
  /\ lcClosed = NoCall
  /\ hdIn = NoHeader
  /\ hdBuf = <<>>
  /\ hdOut = NoHeader
  /\ hdBuf2 = <<>>
  /\ abLast = NoCall
  /\ PoolIdle
  /\ LogIdle
  /\ OldExpIdle

RestIdle == ExpireIdle /\ TrieIdle /\ WriteIdle /\ OpenIdle

restVars == <<expireVars, trieVars, writeVars, openVars>>

notBatch == <<walVars, indexVars, syncVars, restVars>>
notWal == <<batchVars, indexVars, syncVars, restVars>>
notIndex == <<batchVars, walVars, syncVars, restVars>>
notSync == <<batchVars, walVars, indexVars, restVars>>
notExpire == <<batchVars, walVars, indexVars, syncVars, trieVars, writeVars,
               openVars>>
notTrie == <<batchVars, walVars, indexVars, syncVars, expireVars, writeVars,
             openVars>>
notWrite == <<batchVars, walVars, indexVars, syncVars, expireVars, trieVars,
              openVars>>
notOpen == <<batchVars, walVars, indexVars, syncVars, expireVars, trieVars,
             writeVars>>

(***************************************************************************)
(*                        THE WRITE BATCH                                  *)
(***************************************************************************)

\* Bound: the number of entries put into one batch.
MaxBatch == 4

\* Bound: dedup keys are drawn from 1..MaxKey (hash.WithSalt values, abstracted).
MaxKey == 2

\* The length-prefixed frame of one packed entry (len(data)+4); every packed
\* entry of the model has one byte of data after the 4-byte prefix.
FrameLen == 5

BatchKeys == 1..MaxKey

\* batchIndex{delFlag, key, offset}
BatchIndex(d, k, off) == [delFlag |-> d, key |-> k, offset |-> off]

\* The loop of uniq that walks index from its last element to its first and
\* records, for every key seen for the first time, its position idx and the
\* running number newidx.
RECURSIVE uniqueSetScan(_, _, _, _)
uniqueSetScan(ix, idx, uniqueSet, i) ==
  IF idx < 1 THEN uniqueSet
  ELSE IF ix[idx].key \in DOMAIN uniqueSet
       THEN uniqueSetScan(ix, idx - 1, uniqueSet, i)
       ELSE uniqueSetScan(ix, idx - 1,
                          uniqueSet @@ (ix[idx].key :> [idx |-> idx, newidx |-> i]),
                          i + 1)

\* A deduplication that walks index from its first element instead: it keeps
\* the first occurrence of every key.
RECURSIVE uniqueSetScanForward(_, _, _, _)
uniqueSetScanForward(ix, idx, uniqueSet, i) ==
  IF idx > Len(ix) THEN uniqueSet
  ELSE IF ix[idx].key \in DOMAIN uniqueSet
       THEN uniqueSetScanForward(ix, idx + 1, uniqueSet, i)
       ELSE uniqueSetScanForward(ix, idx + 1,
                          uniqueSet @@ (ix[idx].key :> [idx |-> idx, newidx |-> i]),
                          i + 1)

uniqKeepFirst(ix, allowDup) ==
  IF allowDup THEN ix
  ELSE LET us == uniqueSetScanForward(ix, 1, <<>>, 0)
           n  == Cardinality(DOMAIN us)
       IN [p \in 1..n |->
             ix[us[CHOOSE k \in DOMAIN us : us[k].newidx + 1 = p].idx]]

\* Batch.uniq: the value it assigns to pendingWrites.  Go's slot
\* len(uniqueSet)-newidx-1 (0-based) is position len(uniqueSet)-newidx here.
uniq(ix, allowDup) ==
  IF allowDup THEN ix
  ELSE LET us == uniqueSetScan(ix, Len(ix), <<>>, 0)
           n  == Cardinality(DOMAIN us)
       IN [p \in 1..n |->
             ix[us[CHOOSE k \in DOMAIN us : n - us[k].newidx = p].idx]]

BatchInit ==
  /\ index = <<>>
  /\ pendingWrites = <<>>
  /\ size = 0
  /\ entryCount = 0
  /\ allowDuplicates \in BOOLEAN
  /\ uniqDone = FALSE
  /\ uniqInput = <<>>
  /\ WalIdle
  /\ IndexIdle
  /\ SyncIdle
  /\ RestIdle

\* Batch.PutEntry, the part that touches the index: key is 0 when duplicates
\* are allowed, the hash of value and topic otherwise.
PutEntry(k) ==
  /\ Len(index) < MaxBatch
  /\ index' = Append(index, BatchIndex(FALSE, IF allowDuplicates THEN 0 ELSE k, size))
  /\ size' = size + FrameLen
  /\ entryCount' = entryCount + 1
  /\ uniqDone' = FALSE
  /\ uniqInput' = <<>>
  /\ UNCHANGED <<pendingWrites, allowDuplicates>>
  /\ UNCHANGED notBatch

\* Batch.DeleteEntry: key is the topic's hash code.
DeleteEntry(k) ==
  /\ Len(index) < MaxBatch
  /\ index' = Append(index, BatchIndex(TRUE, k, size))
  /\ size' = size + FrameLen
  /\ entryCount' = entryCount + 1
  /\ uniqDone' = FALSE
  /\ uniqInput' = <<>>
  /\ UNCHANGED <<pendingWrites, allowDuplicates>>
  /\ UNCHANGED notBatch

\* The call of uniq at the head of Batch.Write.
Uniq ==
  /\ pendingWrites' = uniq(index, allowDuplicates)
  /\ uniqDone' = TRUE
  /\ uniqInput' = index
  /\ UNCHANGED <<index, size, entryCount, allowDuplicates>>
  /\ UNCHANGED notBatch

\* Batch.Reset
Reset ==
  /\ index # <<>>
  /\ index' = <<>>
  /\ pendingWrites' = <<>>
  /\ size' = 0
  /\ entryCount' = 0
  /\ uniqDone' = FALSE
  /\ uniqInput' = <<>>
  /\ UNCHANGED allowDuplicates
  /\ UNCHANGED notBatch

BatchPut == \E k \in BatchKeys : PutEntry(k)
BatchDelete == \E k \in BatchKeys : DeleteEntry(k)

BatchNext == BatchPut \/ BatchDelete \/ Uniq \/ Reset

SpecBatch == BatchInit /\ [][BatchNext]_vars

\* The position of the last occurrence of key k in ix.
LastOcc(ix, k) == CHOOSE i \in 1..Len(ix) :
                    /\ ix[i].key = k
                    /\ \A j \in (i+1)..Len(ix) : ix[j].key # k

KeysOf(ix) == { ix[i].key : i \in 1..Len(ix) }

\* C9: with AllowDuplicates=false, after uniq pendingWrites holds exactly one
\* entry per distinct key of index, that entry is the last occurrence of its
\* key, the retained entries keep the relative order they have in index, and
\* index is what it was before uniq ran.
UniqKeepsLastInOrder ==
  (uniqDone /\ ~allowDuplicates) =>
     /\ index = uniqInput
     /\ Len(pendingWrites) = Cardinality(KeysOf(index))
     /\ KeysOf(pendingWrites) = KeysOf(index)
     /\ \A p \in 1..Len(pendingWrites) :
          pendingWrites[p] = index[LastOcc(index, pendingWrites[p].key)]
     /\ \A p, q \in 1..Len(pendingWrites) :
          p < q => LastOcc(index, pendingWrites[p].key)
                     < LastOcc(index, pendingWrites[q].key)

\* Witness for C9: uniq has run on a batch that holds a key twice with another
\* key in between, and dropped the earlier occurrence.
UniqDroppedDuplicate ==
  /\ uniqDone
  /\ ~allowDuplicates
  /\ Len(index) >= 3
  /\ index[1].key = index[3].key
  /\ index[2].key # index[1].key
  /\ Len(pendingWrites) < Len(index)

(***************************************************************************)
(*                      THE WRITE-AHEAD LOG                                *)
(***************************************************************************)

\* Bound: time-ids handed to put are 1..MaxTimeID, each used once.
MaxTimeID == 2

\* Bound: the number of SignalLogApplied calls.
MaxSignals == 3

\* Bound: the number of times the WAL is opened.
MaxOpens == 2

\* Bound: the number of log blocks one log record spans.
MaxSpan == 2

\* logStore.all: the time-ids of the persisted logs that were not released.
all(blocks) == { blocks[b] : b \in { c \in LogBlockIDs : blocks[c] # 0 } }

FreeBlocks(blocks) == { b \in LogBlockIDs : blocks[b] = 0 }

\* The n lowest free blocks.
RECURSIVE TakeFree(_, _)
TakeFree(free, n) ==
  IF n = 0 \/ free = {} THEN {}
  ELSE LET b == CHOOSE x \in free : \A y \in free : x <= y
       IN {b} \cup TakeFree(free \ {b}, n - 1)

\* logStore.put: a record of n blocks tagged t is written into free blocks;
\* it fails (WalFull) when fewer than n blocks are free.
storePutOk(blocks, n) == Cardinality(FreeBlocks(blocks)) >= n
storePut(blocks, t, n) ==
  LET take == TakeFree(FreeBlocks(blocks), n)
  IN [b \in LogBlockIDs |-> IF b \in take THEN t ELSE blocks[b]]

\* logStore.del: every block tagged t goes back to the freelist.
storeDel(blocks, t) == [b \in LogBlockIDs |-> IF blocks[b] = t THEN 0 ELSE blocks[b]]

\* logStore.reset
storeReset(blocks) == [b \in LogBlockIDs |-> 0]

\* A newWal that leaves out the call of recoverWal.
newWalNoRecover(reset, blocks) == {}

\* newWal: the value of recoveredTimeIDs when it returns.
newWalRecovered(reset, blocks) == IF reset THEN {} ELSE all(blocks)

\* newWal: the log store when it returns.
newWalStore(reset, blocks) == IF reset THEN storeReset(blocks) ELSE blocks

WalInit ==
  /\ WalIdle
  /\ BatchIdle
  /\ IndexIdle
  /\ SyncIdle
  /\ RestIdle

\* New / newWal
New(reset) ==
  /\ ~walUp
  /\ opens < MaxOpens
  /\ walUp' = TRUE
  /\ optsReset' = reset
  /\ logBlocks' = newWalStore(reset, logBlocks)
  /\ recoveredTimeIDs' = newWalRecovered(reset, logBlocks)
  /\ storeClosed' = FALSE
  /\ putOk' = IF reset THEN {} ELSE putOk
  /\ sigCalled' = IF reset THEN {} ELSE sigCalled
  /\ sigReturned' = IF reset THEN {} ELSE sigReturned
  /\ openSnap' = IF reset THEN [put |-> {}, called |-> {}, returned |-> {}]
                 ELSE [put |-> putOk, called |-> sigCalled, returned |-> sigReturned]
  /\ opens' = opens + 1
  /\ UNCHANGED <<logCountWritten, logCountApplied, entriesWritten, entriesApplied,
                 closed, wg, muReaders, nextTimeID, sigPc, sigT, sigTmp, closePc,
                 delAfterClose, sigCalls>>
  /\ UNCHANGED notWal

WalOpen == \E reset \in BOOLEAN : New(reset)

\* WAL.put with a log of n blocks and n entries under the next time-id.  The
\* counters are raised before logStore.put runs, whether or not it succeeds.
put(n) ==
  /\ walUp
  /\ nextTimeID <= MaxTimeID
  /\ logCountWritten' = logCountWritten + 1
  /\ entriesWritten' = entriesWritten + n
  /\ nextTimeID' = nextTimeID + 1
  /\ IF ~storeClosed /\ storePutOk(logBlocks, n)
       THEN /\ logBlocks' = storePut(logBlocks, nextTimeID, n)
            /\ putOk' = putOk \cup {nextTimeID}
       ELSE UNCHANGED <<logBlocks, putOk>>
  /\ UNCHANGED <<walUp, storeClosed, logCountApplied, entriesApplied,
                 recoveredTimeIDs, closed, wg, muReaders, optsReset, sigPc, sigT,
                 sigTmp, closePc, sigCalled, sigReturned, openSnap, delAfterClose,
                 sigCalls, opens>>
  /\ UNCHANGED notWal

WalPut == \E n \in 1..MaxSpan : put(n)

\* SignalLogApplied, statement by statement.  wal.mu.RLock(): nothing in the
\* WAL takes the write lock, so the read lock is always granted.
SigRLock(p, t) ==
  /\ walUp
  /\ sigPc[p] = "idle"
  /\ sigCalls < MaxSignals
  /\ sigPc' = [sigPc EXCEPT ![p] = "locked"]
  /\ sigT' = [sigT EXCEPT ![p] = t]
  /\ muReaders' = muReaders + 1
  /\ sigCalled' = sigCalled \cup {t}
  /\ sigCalls' = sigCalls + 1
  /\ UNCHANGED <<walUp, logBlocks, storeClosed, logCountWritten, logCountApplied,
                 entriesWritten, entriesApplied, recoveredTimeIDs, closed, wg,
                 optsReset, nextTimeID, sigTmp, closePc, putOk, sigReturned,
                 openSnap, delAfterClose, opens>>
  /\ UNCHANGED notWal

SigStart == \E p \in Signalers : \E t \in 1..(nextTimeID - 1) : SigRLock(p, t)

\* wal.wg.Add(1)
SigAdd(p) ==
  /\ walUp
  /\ sigPc[p] = "locked"
  /\ sigPc' = [sigPc EXCEPT ![p] = "added"]
  /\ wg' = wg + 1
  /\ UNCHANGED <<walUp, logBlocks, storeClosed, logCountWritten, logCountApplied,
                 entriesWritten, entriesApplied, recoveredTimeIDs, closed,
                 muReaders, optsReset, nextTimeID, sigT, sigTmp, closePc, putOk,
                 sigCalled, sigReturned, openSnap, delAfterClose, sigCalls, opens>>
  /\ UNCHANGED notWal

SigWgAdd == \E p \in Signalers : SigAdd(p)

\* wal.logCountApplied++ is a load and a store; holders of the read lock run
\* it concurrently.
SigLoad(p) ==
  /\ walUp
  /\ sigPc[p] = "added"
  /\ sigPc' = [sigPc EXCEPT ![p] = "loaded"]
  /\ sigTmp' = [sigTmp EXCEPT ![p] = logCountApplied]
  /\ UNCHANGED <<walUp, logBlocks, storeClosed, logCountWritten, logCountApplied,
                 entriesWritten, entriesApplied, recoveredTimeIDs, closed, wg,
                 muReaders, optsReset, nextTimeID, sigT, closePc, putOk,
                 sigCalled, sigReturned, openSnap, delAfterClose, sigCalls, opens>>
  /\ UNCHANGED notWal

SigCountLoad == \E p \in Signalers : SigLoad(p)

SigStore(p) ==
  /\ walUp
  /\ sigPc[p] = "loaded"
  /\ sigPc' = [sigPc EXCEPT ![p] = "counted"]
  /\ logCountApplied' = sigTmp[p] + 1
  /\ UNCHANGED <<walUp, logBlocks, storeClosed, logCountWritten,
                 entriesWritten, entriesApplied, recoveredTimeIDs, closed, wg,
                 muReaders, optsReset, nextTimeID, sigT, sigTmp, closePc, putOk,
                 sigCalled, sigReturned, openSnap, delAfterClose, sigCalls, opens>>
  /\ UNCHANGED notWal

SigCountStore == \E p \in Signalers : SigStore(p)

\* wal.logStore.del(timeID).  On a store that Close has released the call
\* either still takes effect or is lost; its result is not looked at.
SigDel(p, lost) ==
  /\ walUp
  /\ sigPc[p] = "counted"
  /\ lost => storeClosed
  /\ sigPc' = [sigPc EXCEPT ![p] = "deleted"]
  /\ logBlocks' = IF lost THEN logBlocks ELSE storeDel(logBlocks, sigT[p])
  /\ delAfterClose' = (delAfterClose \/ storeClosed)
  /\ UNCHANGED <<walUp, storeClosed, logCountWritten, logCountApplied,
                 entriesWritten, entriesApplied, recoveredTimeIDs, closed, wg,
                 muReaders, optsReset, nextTimeID, sigT, sigTmp, closePc, putOk,
                 sigCalled, sigReturned, openSnap, sigCalls, opens>>
  /\ UNCHANGED notWal

SigStoreDel == \E p \in Signalers : \E lost \in BOOLEAN : SigDel(p, lost)

\* The deferred wal.wg.Done(); wal.mu.RUnlock(); return nil
SigReturn(p) ==
  /\ walUp
  /\ sigPc[p] = "deleted"
  /\ sigPc' = [sigPc EXCEPT ![p] = "idle"]
  /\ wg' = wg - 1
  /\ muReaders' = muReaders - 1
  /\ sigReturned' = sigReturned \cup {sigT[p]}
  /\ UNCHANGED <<walUp, logBlocks, storeClosed, logCountWritten, logCountApplied,
                 entriesWritten, entriesApplied, recoveredTimeIDs, closed,
                 optsReset, nextTimeID, sigT, sigTmp, closePc, putOk, sigCalled,
                 openSnap, delAfterClose, sigCalls, opens>>
  /\ UNCHANGED notWal

SigDone == \E p \in Signalers : SigReturn(p)

\* Close: setClosed.  A call on a closed WAL returns the error at once.
CloseSetClosed ==
  /\ walUp
  /\ closePc = "idle"
  /\ closed = 0
  /\ closed' = 1
  /\ closePc' = "wait"
  /\ UNCHANGED <<walUp, logBlocks, storeClosed, logCountWritten, logCountApplied,
                 entriesWritten, entriesApplied, recoveredTimeIDs, wg, muReaders,
                 optsReset, nextTimeID, sigPc, sigT, sigTmp, putOk, sigCalled,
                 sigReturned, openSnap, delAfterClose, sigCalls, opens>>
  /\ UNCHANGED notWal

\* Close: wal.wg.Wait() returns when the counter is zero.
CloseWait ==
  /\ walUp
  /\ closePc = "wait"
  /\ wg = 0
  /\ closePc' = "closing"
  /\ UNCHANGED <<walUp, logBlocks, storeClosed, logCountWritten, logCountApplied,
                 entriesWritten, entriesApplied, recoveredTimeIDs, closed, wg,
                 muReaders, optsReset, nextTimeID, sigPc, sigT, sigTmp, putOk,
                 sigCalled, sigReturned, openSnap, delAfterClose, sigCalls, opens>>
  /\ UNCHANGED notWal

\* Close: wal.logStore.close()
CloseStore ==
  /\ walUp
  /\ closePc = "closing"
  /\ storeClosed' = TRUE
  /\ closePc' = "done"
  /\ UNCHANGED <<walUp, logBlocks, logCountWritten, logCountApplied,
                 entriesWritten, entriesApplied, recoveredTimeIDs, closed, wg,
                 muReaders, optsReset, nextTimeID, sigPc, sigT, sigTmp, putOk,
                 sigCalled, sigReturned, openSnap, delAfterClose, sigCalls, opens>>
  /\ UNCHANGED notWal

\* The process ends (a crash, or an exit after Close): the WAL object and its
\* goroutines are gone, the log file stays.
WalCrash ==
  /\ walUp
  /\ walUp' = FALSE
  /\ storeClosed' = FALSE
  /\ logCountWritten' = 0
  /\ logCountApplied' = 0
  /\ entriesWritten' = 0
  /\ entriesApplied' = 0
  /\ recoveredTimeIDs' = {}
  /\ closed' = 0
  /\ wg' = 0
  /\ muReaders' = 0
  /\ sigPc' = [p \in Signalers |-> "idle"]
  /\ sigT' = [p \in Signalers |-> 0]
  /\ sigTmp' = [p \in Signalers |-> 0]
  /\ closePc' = "idle"
  /\ UNCHANGED <<logBlocks, optsReset, nextTimeID, putOk, sigCalled, sigReturned,
                 openSnap, delAfterClose, sigCalls, opens>>
  /\ UNCHANGED notWal

WalNext ==
  \/ WalOpen
  \/ WalPut
  \/ SigStart
  \/ SigWgAdd
  \/ SigCountLoad
  \/ SigCountStore
  \/ SigStoreDel
  \/ SigDone
  \/ CloseSetClosed
  \/ CloseWait
  \/ CloseStore
  \/ WalCrash

SpecWal == WalInit /\ [][WalNext]_vars

\* C5: after New without Reset the recovered time-ids contain every time-id
\* whose put had returned nil and for which SignalLogApplied had not been
\* called when the previous process ended; after New with Reset there are none.
RecoveredCoversUnapplied ==
  walUp => IF optsReset
             THEN recoveredTimeIDs = {}
             ELSE (openSnap.put \ openSnap.called) \subseteq recoveredTimeIDs

\* Witness for C5: the WAL was reopened without Reset and recovered a log that
\* was put and never signalled, while another log had been applied before.
RecoveredSomething ==
  /\ walUp
  /\ ~optsReset
  /\ opens = 2
  /\ (openSnap.put \ openSnap.called) # {}
  /\ openSnap.returned # {}
  /\ recoveredTimeIDs # {}

\* C6: once SignalLogApplied(t) has returned, no log block is tagged t, and a
\* WAL opened after that does not offer t for recovery.
AppliedNeverReplayed ==
  \A t \in sigReturned :
     /\ \A b \in LogBlockIDs : logBlocks[b] # t
     /\ (walUp /\ t \in openSnap.returned) => t \notin recoveredTimeIDs

\* C7: logStore.del never runs on a log store that Close has closed.
NoDelAfterClose == ~delAfterClose

\* C8: a step of a SignalLogApplied(t) call that was made after an earlier
\* call for t had returned leaves the log store and the WALInfo counters as
\* they are.
SecondSignalIsNoOp ==
  [][ \A p \in Signalers :
        (sigPc[p] # "idle" /\ sigPc'[p] # sigPc[p] /\ sigT[p] \in sigReturned)
           => UNCHANGED walStore ]_vars

(***************************************************************************)
(*                          THE HASH INDEX                                 *)
(***************************************************************************)

\* Bound: hashes are HashBits wide.
HashBits == 7

\* Bound: the payload put for key k is PayloadBase + k.
PayloadBase == 100

\* The seeds tried: 1 spreads the keys over the blocks, 2 and 4 make the low
\* bits of all hashes equal so that one block chain takes most keys.
HashSeeds == {1, 2, 4}

\* loadFactor of src/db.go as a fraction
loadFactorNum == 7
loadFactorDen == 10

Min(S) == CHOOSE x \in S : \A y \in S : x <= y

\* hash.WithSalt: distinct keys get distinct hashes as long as
\* key * seed < 2^HashBits.
hash(key, seed) == (key * seed) % (2 ^ HashBits)

Payload(key) == PayloadBase + key

\* DB.blockIndex
blockIndex(h, lvl, split) ==
  LET idx == h % (2 ^ lvl)
  IN IF idx < split THEN h % (2 ^ (lvl + 1)) ELSE idx

\* The index file and the block part of the data file taken together.
Files == [index |-> indexBlk, ovf |-> ovfBlk, free |-> ovfFree]

IndexLoc(idx) == [inIndex |-> TRUE, off |-> idx]
DataLoc(off) == [inIndex |-> FALSE, off |-> off]

\* blockHandle.read
readBlock(F, loc) == IF loc.inIndex THEN F.index[loc.off + 1] ELSE F.ovf[loc.off]

\* blockHandle.write
writeBlock(F, loc, blk) ==
  IF loc.inIndex
    THEN [F EXCEPT !.index = IF loc.off + 1 > Len(@) THEN Append(@, blk)
                             ELSE [@ EXCEPT ![loc.off + 1] = blk]]
    ELSE [F EXCEPT !.ovf = IF loc.off > Len(@) THEN Append(@, blk)
                           ELSE [@ EXCEPT ![loc.off] = blk]]

\* DB.createOverflowBlock: data.allocate hands out a freed block if there is
\* one and extends the file otherwise; the handle starts out empty.
createOverflowBlock(F) ==
  LET off == IF F.free # {} THEN Min(F.free) ELSE Len(F.ovf) + 1
  IN [off |-> off,
      F   |-> [F EXCEPT !.free = @ \ {off},
                        !.ovf = IF off > Len(@) THEN Append(@, EmptyBlock)
                                ELSE [@ EXCEPT ![off] = EmptyBlock]]]

\* The slot at which the loop over a block's entries stops in put and Get:
\* the first one that is empty or holds the key; 0 if there is none.
stopSlot(b, h, key, data) ==
  LET S == { i \in 1..entriesPerBlock :
               \/ b.entries[i].kvOffset = 0
               \/ /\ b.entries[i].hash = h
                  /\ data[b.entries[i].kvOffset].key = key }
  IN IF S = {} THEN 0 ELSE Min(S)

\* DB.put, the walk with forEachBlock: where the entry goes.  overflow means
\* that the chain is full and a new overflow block is linked behind loc.
RECURSIVE putFind(_, _, _, _, _)
putFind(F, loc, h, key, data) ==
  LET b == readBlock(F, loc)
      i == stopSlot(b, h, key, data)
  IN IF i # 0 THEN [loc |-> loc, entryIdx |-> i, overflow |-> FALSE]
     ELSE IF b.next = 0 THEN [loc |-> loc, entryIdx |-> 1, overflow |-> TRUE]
     ELSE putFind(F, DataLoc(b.next), h, key, data)

\* DB.put, the writes: the files after the entry e went where putFind says.
putWrite(F, f, e) ==
  IF f.overflow
    THEN LET c == createOverflowBlock(F)
             originalB == [readBlock(F, f.loc) EXCEPT !.next = c.off]
             b == [EmptyBlock EXCEPT !.entries[1] = e]
         IN writeBlock(writeBlock(c.F, DataLoc(c.off), b), f.loc, originalB)
    ELSE writeBlock(F, f.loc, [readBlock(F, f.loc) EXCEPT !.entries[f.entryIdx] = e])

\* DB.put, the filter: the first DB.put returns on the overflow path before
\* it reaches filter.Append; the second DB.put leaves the filter to its caller.
putFilter(version, f, h, flt) ==
  IF version = 1 /\ f.overflow THEN flt ELSE flt \cup {h}

\* DB.split: the used entries of a chain, in the order of the walk.
RECURSIVE chainEntries(_, _)
chainEntries(F, loc) ==
  LET b == readBlock(F, loc)
      used == { i \in 1..entriesPerBlock :
                  \A j \in 1..i : b.entries[j].kvOffset # 0 }
      es == [i \in 1..Cardinality(used) |-> b.entries[i]]
  IN IF b.next = 0 THEN es ELSE es \o chainEntries(F, DataLoc(b.next))

\* DB.split: overflowBlocks
RECURSIVE chainOverflow(_, _)
chainOverflow(F, loc) ==
  LET b == readBlock(F, loc)
  IN IF b.next = 0 THEN {} ELSE {b.next} \cup chainOverflow(F, DataLoc(b.next))

mkBlock(es, next) ==
  [entries |-> [i \in 1..entriesPerBlock |-> IF i <= Len(es) THEN es[i] ELSE EmptyEntry],
   next |-> next]

\* entryWriter.insert of every entry of es followed by entryWriter.write: the
\* block at loc takes the first entriesPerBlock entries, new overflow blocks
\* take the rest.
RECURSIVE writeChain(_, _, _)
writeChain(F, loc, es) ==
  IF Len(es) <= entriesPerBlock
    THEN writeBlock(F, loc, mkBlock(es, 0))
    ELSE LET c == createOverflowBlock(F)
         IN writeChain(writeBlock(c.F, loc, mkBlock(SubSeq(es, 1, entriesPerBlock), c.off)),
                       DataLoc(c.off),
                       SubSeq(es, entriesPerBlock + 1, Len(es)))

\* A selection that leaves every entry in the block being split.
SelectNone(es, lvl, sIdx, idx, stay) == IF stay THEN es ELSE <<>>

\* DB.split: the entries whose block, at the new level and split index, is
\* (stay) or is not (~stay) the block being split, in the order of the walk.
RECURSIVE SelectEntries(_, _, _, _, _)
SelectEntries(es, lvl, sIdx, idx, stay) ==
  IF es = <<>> THEN <<>>
  ELSE IF (blockIndex(Head(es).hash, lvl, sIdx) = idx) = stay
    THEN <<Head(es)>> \o SelectEntries(Tail(es), lvl, sIdx, idx, stay)
    ELSE SelectEntries(Tail(es), lvl, sIdx, idx, stay)

\* table.extend(blockSize) of the index file: the offset of the new block is
\* the end of the file.
extendIndex(F) == [F EXCEPT !.index = Append(@, EmptyBlock)]

\* The calls inside DB.split that can return an error: index.extend,
\* newBlock.write and updatedBlock.write.
SplitFaults == {"none", "extend", "newWrite", "updatedWrite"}

\* DB.split in which the call named by fault returns an error ("none": no
\* call does).  err says whether split returned an error.
splitWith(F, lvl, sIdx, n, version, fault) ==
  LET updatedBlockIdx == sIdx
      newBlockIdx == Len(F.index)
      newSplit == IF sIdx + 1 = 2 ^ lvl THEN 0 ELSE sIdx + 1
      newLevel == IF sIdx + 1 = 2 ^ lvl THEN lvl + 1 ELSE lvl
      es == chainEntries(F, IndexLoc(updatedBlockIdx))
      overflowBlocks == chainOverflow(F, IndexLoc(updatedBlockIdx))
      F0 == extendIndex(F)
      F1 == writeChain(F0, IndexLoc(newBlockIdx), SelectEntries(es, newLevel, newSplit, updatedBlockIdx, FALSE))
      F2 == writeChain(F1, IndexLoc(updatedBlockIdx), SelectEntries(es, newLevel, newSplit, updatedBlockIdx, TRUE))
      Ff == IF fault = "newWrite" THEN F0 ELSE IF fault = "updatedWrite" THEN F1 ELSE F2
      F3 == IF version = 2 THEN [Ff EXCEPT !.free = @ \cup overflowBlocks] ELSE Ff
  IN IF fault = "extend"
       THEN [F |-> F, level |-> lvl, splitBlockIdx |-> sIdx, nBlocks |-> n, err |-> TRUE]
       ELSE [F |-> F3, level |-> newLevel, splitBlockIdx |-> newSplit,
             nBlocks |-> IF fault = "none" THEN n + 1 ELSE n, err |-> fault # "none"]

\* DB.split, every call succeeding
split(F, lvl, sIdx, n, version) ==
  LET r == splitWith(F, lvl, sIdx, n, version, "none")
  IN [F |-> r.F, level |-> r.level, splitBlockIdx |-> r.splitBlockIdx, nBlocks |-> r.nBlocks]

\* DB.Get, the walk with forEachBlock; 0 stands for nil.
RECURSIVE getWalk(_, _, _, _, _)
getWalk(F, loc, h, key, data) ==
  LET b == readBlock(F, loc)
      i == stopSlot(b, h, key, data)
  IN IF i # 0 /\ b.entries[i].kvOffset # 0 THEN data[b.entries[i].kvOffset].value
     ELSE IF b.next = 0 THEN 0
     ELSE getWalk(F, DataLoc(b.next), h, key, data)

IndexInit ==
  /\ putVersion \in {1, 2}
  /\ hashSeed \in HashSeeds
  /\ level = 0
  /\ splitBlockIdx = 0
  /\ nBlocks = 1
  /\ count = 0
  /\ indexBlk = <<EmptyBlock>>
  /\ ovfBlk = <<>>
  /\ ovfFree = {}
  /\ kv = <<>>
  /\ filter = {}
  /\ written = [k \in 1..MaxPuts |-> 0]
  /\ getKey = 0
  /\ getRet = 0
  /\ BatchIdle
  /\ WalIdle
  /\ SyncIdle
  /\ RestIdle

\* DB.PutEntry of a new key with its payload: DB.put, then DB.split when the
\* load factor is exceeded.  All file operations succeed, and count stays
\* far below MaxKeys (the largest uint32), so errFull is not returned.
DBPutEntry(key) ==
  /\ key = Len(kv) + 1
  /\ key <= MaxPuts
  /\ LET h == hash(key, hashSeed)
         f == putFind(Files, IndexLoc(blockIndex(h, level, splitBlockIdx)), h, key, kv)
         isNew == readBlock(Files, f.loc).entries[f.entryIdx].kvOffset = 0 \/ f.overflow
         kvOff == Len(kv) + 1
         e == [hash |-> h, kvOffset |-> kvOff]
         F1 == putWrite(Files, f, e)
         cnt == IF isNew THEN count + 1 ELSE count
         doSplit == cnt * loadFactorDen > nBlocks * entriesPerBlock * loadFactorNum
         sp == IF doSplit THEN split(F1, level, splitBlockIdx, nBlocks, putVersion)
               ELSE [F |-> F1, level |-> level, splitBlockIdx |-> splitBlockIdx,
                     nBlocks |-> nBlocks]
     IN /\ kv' = Append(kv, [key |-> key, value |-> Payload(key)])
        /\ count' = cnt
        /\ filter' = putFilter(putVersion, f, h, filter)
        /\ indexBlk' = sp.F.index
        /\ ovfBlk' = sp.F.ovf
        /\ ovfFree' = sp.F.free
        /\ level' = sp.level
        /\ splitBlockIdx' = sp.splitBlockIdx
        /\ nBlocks' = sp.nBlocks
        /\ written' = [written EXCEPT ![key] = Payload(key)]
  /\ getKey' = 0
  /\ getRet' = 0
  /\ UNCHANGED <<putVersion, hashSeed>>
  /\ UNCHANGED notIndex

DBPut == \E key \in 1..MaxPuts : DBPutEntry(key)

\* DB.Get.  fp: the filter answers yes for a hash that was never appended.
Get(key, fp) ==
  /\ fp => hash(key, hashSeed) \notin filter
  /\ LET h == hash(key, hashSeed)
     IN /\ getKey' = key
        /\ getRet' = IF h \in filter \/ fp
                       THEN getWalk(Files, IndexLoc(blockIndex(h, level, splitBlockIdx)),
                                    h, key, kv)
                       ELSE 0
  /\ UNCHANGED <<putVersion, hashSeed, level, splitBlockIdx, nBlocks, count,
                 indexBlk, ovfBlk, ovfFree, kv, filter, written>>
  /\ UNCHANGED notIndex

DBGet == \E key \in 1..MaxPuts : \E fp \in BOOLEAN : Get(key, fp)

IndexNext ==
  \/ DBPut
  \/ DBGet

SpecIndex == IndexInit /\ [][IndexNext]_vars

\* Bound: the number of splits that fail after index.extend.
MaxSplitFaults == 1

\* DB.PutEntry of a new key with its payload in which DB.split runs and
\* the call named by fault returns an error.  PutEntry does not look at what
\* split returns.
DBPutEntrySplitErr(key, fault) ==
  /\ key = Len(kv) + 1
  /\ key <= MaxPuts
  /\ Len(indexBlk) - nBlocks < MaxSplitFaults
  /\ LET h == hash(key, hashSeed)
         f == putFind(Files, IndexLoc(blockIndex(h, level, splitBlockIdx)), h, key, kv)
         isNew == readBlock(Files, f.loc).entries[f.entryIdx].kvOffset = 0 \/ f.overflow
         kvOff == Len(kv) + 1
         e == [hash |-> h, kvOffset |-> kvOff]
         F1 == putWrite(Files, f, e)
         cnt == IF isNew THEN count + 1 ELSE count
         sp == splitWith(F1, level, splitBlockIdx, nBlocks, putVersion, fault)
     IN /\ cnt * loadFactorDen > nBlocks * entriesPerBlock * loadFactorNum
        /\ kv' = Append(kv, [key |-> key, value |-> Payload(key)])
        /\ count' = cnt
        /\ filter' = putFilter(putVersion, f, h, filter)
        /\ indexBlk' = sp.F.index
        /\ ovfBlk' = sp.F.ovf
        /\ ovfFree' = sp.F.free
        /\ level' = sp.level
        /\ splitBlockIdx' = sp.splitBlockIdx
        /\ nBlocks' = sp.nBlocks
        /\ written' = [written EXCEPT ![key] = Payload(key)]
  /\ getKey' = 0
  /\ getRet' = 0
  /\ UNCHANGED <<putVersion, hashSeed>>
  /\ UNCHANGED notIndex

DBPutSplitErr ==
  \E key \in 1..MaxPuts : \E fault \in SplitFaults \ {"none"} : DBPutEntrySplitErr(key, fault)

SplitNext ==
  \/ DBPut
  \/ DBGet
  \/ DBPutSplitErr

\* The hash index with splits that fail.
SpecSplit == IndexInit /\ [][SplitNext]_vars

\* C10: a Get of a key that was put returns the payload last put for it,
\* whether the entry sits in an index block, in an overflow block or in a
\* block written by a split.
GetReturnsLastPut ==
  (getKey # 0 /\ written[getKey] # 0) => getRet = written[getKey]

\* The same for the keys whose entry was not placed in a fresh overflow block
\* by the first DB.put.
GetReturnsLastPutInBlock ==
  (getKey # 0 /\ written[getKey] # 0 /\ hash(getKey, hashSeed) \in filter)
     => getRet = written[getKey]

\* A Get found a key in an overflow block after a split had run.
GetFoundInOverflow ==
  /\ getKey # 0
  /\ getRet = Payload(getKey)
  /\ nBlocks > 1
  /\ \E a \in 1..Len(ovfBlk) : a \notin ovfFree /\
        \E i \in 1..entriesPerBlock :
           /\ ovfBlk[a].entries[i].kvOffset # 0
           /\ kv[ovfBlk[a].entries[i].kvOffset].key = getKey

\* C39 (as stated, violated): every put that returned nil has appended the
\* hash of its key to the presence filter.
PutAppendsToFilter ==
  \A key \in 1..Len(kv) : hash(key, hashSeed) \in filter

\* C39 (helper, holds): the hash of every key that was put is in the filter
\* when the puts went through the second DB.put and its caller, and with
\* the first DB.put the filter lacks only hashes of keys that were put.
PutAppendsToFilterUnlessOverflow ==
  /\ putVersion = 2 => PutAppendsToFilter
  /\ \A key \in 1..MaxPuts : hash(key, hashSeed) \in filter => key <= Len(kv)

\* The number of entries held by the chains of the index blocks 0..n-1.
RECURSIVE entriesInChains(_, _)
entriesInChains(F, n) ==
  IF n = 0 THEN 0
  ELSE Len(chainEntries(F, IndexLoc(n - 1))) + entriesInChains(F, n - 1)

\* The walk of DB.Get, without the filter in front of it.
reach(key) ==
  getWalk(Files, IndexLoc(blockIndex(hash(key, hashSeed), level, splitBlockIdx)),
          hash(key, hashSeed), key, kv)

MaxSeq == 4

\* Bound: the number of entries of one batch.
MaxBatchLen == 2

\* Bound: the number of topics; entry seq belongs to topic TopicOf(seq).
NTopics == 2

\* Bound: Options.BufferSize, counted in entries.
BufferSize == 1

\* Bound: the number of entries of one index block.
entriesPerIndexBlock == 2

\* Bound: the number of DB.Sync calls.
MaxSyncs == 2

\* Bound: the number of failures of memtable, writers and files.
MaxFaults == 1

\* Bound: the number of crashes.
MaxCrashes == 1

\* internal.upperCount is never assigned.
upperCount == 0

TopicOf(seq) == ((seq - 1) % NTopics) + 1

\* startBlockIndex: the index block an entry lives in.
startBlockIndex(seq) == (seq - 1) \div entriesPerIndexBlock

Range(q) == { q[i] : i \in DOMAIN q }

SeqMax(a, b) == IF a > b THEN a ELSE b

\* The elements of a set of seqs in ascending order.
RECURSIVE SeqOf(_)
SeqOf(S) ==
  IF S = {} THEN <<>>
  ELSE LET x == CHOOSE y \in S : \A z \in S : y <= z
       IN <<x>> \o SeqOf(S \ {x})

\* The failures of one visit of a topic inside the callback of Sync: of the
\* steps run for the entry number at, or of the steps that follow the loop
\* over the entries.
EntryFaults == {"get", "unmarshal", "data", "block"}
CbFaults == {"getOffset", "winAppend", "setOffset"}
FlushFaults == {"none", "fail"}

TopicFaults(n) ==
  {[at |-> 0, kind |-> "none"]}
    \cup { [at |-> i, kind |-> k] : i \in 1..n, k \in EntryFaults }
    \cup { [at |-> 0, kind |-> k] : k \in CbFaults }

\* Sync, the loop over the window entries of one topic.  st holds rawData,
\* rawBlock, upperSeq, count and err1; ix is the content of the index file,
\* in which blockWriter.append looks for the entry.
RECURSIVE drain(_, _, _, _, _)
drain(es, i, fault, ix, st) ==
  IF i > Len(es) THEN st
  ELSE
    LET s == es[i]
        hit(k) == fault.at = i /\ fault.kind = k
        st1 == IF hit("unmarshal") THEN [st EXCEPT !.err1 = TRUE] ELSE st
        st2 == [st1 EXCEPT !.rawData = Append(@, s)]
    IN IF hit("get") \/ hit("data")
         THEN [st1 EXCEPT !.err1 = TRUE]                       \* err1 = err; break
       ELSE IF s \in ix
         THEN drain(es, i + 1, fault, ix, [st2 EXCEPT !.err1 = FALSE])  \* exists: err1 = nil
       ELSE IF hit("block")
         THEN drain(es, i + 1, fault, ix, [st2 EXCEPT !.err1 = TRUE])
       ELSE drain(es, i + 1, fault, ix,
                  [st2 EXCEPT !.rawBlock = Append(@, s),
                              !.upperSeq = SeqMax(@, s),
                              !.count = @ + 1])

\* File.truncate
truncate(file, off) == IF Len(file) > off THEN SubSeq(file, 1, off) ELSE file

\* internal.reset
reset ==
  /\ hCount' = 0
  /\ rawData' = <<>>
  /\ rawBlock' = <<>>
  /\ rawWindow' = <<>>

\* An abort that returns after the reset whatever syncComplete is.
abortNoRollback(cnt) ==
  /\ reset
  /\ dbCount' = cnt
  /\ UNCHANGED <<dataFile, indexFile, indexSize, winFile, blockIdx>>

\* syncHandle.abort, run when syncComplete has its new value and DB.count is
\* cnt.  The truncations
\* are not synced.  Truncating the index file removes the entries of the
\* blocks cut off; the rollbacks of the writers and the rewrite of the
\* freelist succeed and change no file.
abort(cnt) ==
  /\ reset
  /\ IF syncComplete'
       THEN /\ dbCount' = cnt
            /\ UNCHANGED <<dataFile, indexFile, indexSize, winFile, blockIdx>>
       ELSE /\ dataFile' = truncate(dataFile, dataOff)
            /\ indexSize' = blockOff
            /\ indexFile' = { s \in indexFile : startBlockIndex(s) < blockOff }
            /\ winFile' = truncate(winFile, winOff)
            /\ blockIdx' = startBlockIdx
            /\ dbCount' = cnt - upperCount

SyncInit ==
  /\ SyncIdle
  /\ BatchIdle
  /\ WalIdle
  /\ IndexIdle
  /\ RestIdle

\* A batch of n entries is written (memtable, time window) and committed to
\* the write-ahead log under the current time-id.
WriteCommit(n) ==
  /\ pc = "idle"
  /\ dbSeq + n <= MaxSeq
  /\ LET S == (dbSeq + 1)..(dbSeq + n)
     IN /\ mem' = mem \cup S
        /\ window' = window \cup S
        /\ logs' = [logs EXCEPT ![dbLogSeq] = @ \cup S]
        /\ batches' = batches \cup {S}
  /\ dbSeq' = dbSeq + n
  /\ abortRan' = FALSE
  /\ recovered' = FALSE
  /\ UNCHANGED <<dbLogSeq, dbCount, blockIdx, syncFiles, syncHandle, pc, todo, err1,
                 flushFrom, drainedNow, failedNow, signalledNow, syncRet,
                 startSizes, syncs, faults, crashes>>
  /\ UNCHANGED notSync

BatchWriteCommit == \E n \in 1..MaxBatchLen : WriteCommit(n)

\* DB.Sync up to the call of syncHandle.Sync: startSync.  The time-id under
\* which later batches are committed moves on.
startSync ==
  /\ pc = "idle"
  /\ syncs < MaxSyncs
  /\ syncs' = syncs + 1
  /\ abortRan' = FALSE
  /\ recovered' = FALSE
  /\ IF lastSyncSeq = dbSeq
       THEN /\ syncStatusOk' = FALSE
            /\ UNCHANGED <<startBlockIdx, lastSyncSeq, hLogSeq, syncComplete, hCount,
                           rawData, rawBlock, rawWindow, winOff, blockOff, dataOff,
                           upperSeq, pc, todo, err1, drainedNow, failedNow,
                           signalledNow, syncRet, startSizes, dbLogSeq>>
       ELSE /\ startBlockIdx' = blockIdx
            /\ hLogSeq' = dbLogSeq
            /\ rawWindow' = <<>>
            /\ rawBlock' = <<>>
            /\ rawData' = <<>>
            /\ upperSeq' = 0
            /\ winOff' = Len(winFile)
            /\ blockOff' = indexSize
            /\ dataOff' = Len(dataFile)
            /\ syncStatusOk' = TRUE
            /\ pc' = "each"
            /\ todo' = { TopicOf(s) : s \in window }
            /\ err1' = FALSE
            /\ drainedNow' = {}
            /\ failedNow' = FALSE
            /\ signalledNow' = FALSE
            /\ syncRet' = "none"
            /\ startSizes' = [data |-> Len(dataFile), index |-> indexSize,
                              window |-> Len(winFile), blockIdx |-> blockIdx,
                              count |-> dbCount]
            /\ dbLogSeq' = IF dbLogSeq < MaxLogSeq THEN dbLogSeq + 1 ELSE dbLogSeq
            /\ UNCHANGED <<lastSyncSeq, syncComplete, hCount>>
  /\ UNCHANGED <<dbSeq, mem, window, logs, dbCount, blockIdx, syncFiles, flushFrom,
                 batches, faults, crashes>>
  /\ UNCHANGED notSync

\* Sync, the callback, one round of its loop over the topics of the window
\* map, up to the call of syncHandle.sync(false, false) and its test.
SyncTopic(h, fault) ==
  /\ pc = "each"
  /\ h \in todo
  /\ fault.kind # "none" => faults < MaxFaults
  /\ LET es == SeqOf({ s \in window : TopicOf(s) = h })
         d == drain(es, 1, fault, indexFile,
                    [rawData |-> rawData, rawBlock |-> rawBlock, upperSeq |-> upperSeq,
                     count |-> hCount, err1 |-> err1])
         cbFail == fault.kind \in CbFaults
         flush == ~cbFail /\ ~d.err1 /\ Len(d.rawData) > BufferSize /\ d.upperSeq # 0
     IN /\ fault.at <= Len(es)
        /\ rawData' = d.rawData
        /\ rawBlock' = d.rawBlock
        /\ upperSeq' = d.upperSeq
        /\ hCount' = d.count
        /\ err1' = d.err1
        /\ rawWindow' = IF fault.kind \in {"getOffset", "winAppend"} THEN rawWindow
                        ELSE rawWindow \o es
        /\ drainedNow' = IF cbFail THEN drainedNow ELSE drainedNow \cup Range(es)
        /\ mem' = IF cbFail THEN mem
                  ELSE mem \ { s \in mem : TopicOf(s) = h /\ s <= d.upperSeq }
        /\ pc' = IF cbFail THEN "cberr"
                 ELSE IF d.err1 THEN "cbret"
                 ELSE IF flush THEN "fData" ELSE "each"
        /\ syncComplete' = IF flush THEN FALSE ELSE syncComplete
        /\ flushFrom' = IF flush THEN "each" ELSE flushFrom
        /\ failedNow' = (failedNow \/ fault.kind # "none")
        /\ faults' = IF fault.kind # "none" THEN faults + 1 ELSE faults
  /\ todo' = todo \ {h}
  /\ abortRan' = FALSE
  /\ recovered' = FALSE
  /\ UNCHANGED <<dbSeq, window, logs, dbLogSeq, dbCount, blockIdx, syncFiles,
                 startBlockIdx, lastSyncSeq, hLogSeq, syncStatusOk, winOff, blockOff,
                 dataOff, signalledNow, syncRet, startSizes, batches, syncs, crashes>>
  /\ UNCHANGED notSync

SyncEachTopic ==
  \E h \in 1..NTopics : \E fault \in TopicFaults(MaxSeq) : SyncTopic(h, fault)

\* Sync: the callback returns (false, nil), after the last topic or after a
\* break on err1, and foreachTimeWindow, which releases the window map it had
\* handed out, returns nil.
CallbackReturn ==
  /\ \/ pc = "each" /\ todo = {}
     \/ pc = "cbret"
  /\ pc' = "final"
  /\ window' = {}
  /\ todo' = {}
  /\ abortRan' = FALSE
  /\ recovered' = FALSE
  /\ UNCHANGED <<dbSeq, mem, logs, dbLogSeq, dbCount, blockIdx, syncFiles, syncHandle,
                 err1, flushFrom, drainedNow, failedNow, signalledNow, syncRet,
                 startSizes, batches, syncs, faults, crashes>>
  /\ UNCHANGED notSync

dbCore == <<dbSeq, mem, window, logs, dbLogSeq, batches, syncs, crashes>>
hSnap == <<startBlockIdx, lastSyncSeq, hLogSeq, syncStatusOk, winOff, blockOff,
           dataOff, upperSeq>>
durable == <<dataDur, indexDur, indexSizeDur, winDur>>
runInfo == <<drainedNow, signalledNow, startSizes, todo, flushFrom>>
rawBuffers == <<hCount, rawData, rawBlock, rawWindow>>

\* Sync: the callback returned an error: syncComplete = false, abort().
CallbackError ==
  /\ pc = "cberr"
  /\ syncComplete' = FALSE
  /\ abort(dbCount)
  /\ abortRan' = TRUE
  /\ pc' = "recover"
  /\ recovered' = FALSE
  /\ UNCHANGED <<dbCore, hSnap, durable, runInfo, err1, failedNow, syncRet, faults>>
  /\ UNCHANGED notSync

\* Sync: startRecovery() replays the logs the write-ahead log still holds:
\* their entries are back in the memtable and in the time window.
StartRecovery ==
  /\ pc = "recover"
  /\ mem' = mem \cup UNION { logs[t] : t \in 1..MaxLogSeq }
  /\ window' = window \cup UNION { logs[t] : t \in 1..MaxLogSeq }
  /\ pc' = "final"
  /\ abortRan' = FALSE
  /\ recovered' = FALSE
  /\ UNCHANGED <<dbSeq, logs, dbLogSeq, dbCount, blockIdx, syncFiles, syncHandle, todo,
                 err1, flushFrom, drainedNow, failedNow, signalledNow, syncRet,
                 startSizes, batches, syncs, faults, crashes>>
  /\ UNCHANGED notSync

\* Sync: syncHandle.sync(false, true) up to its first write.  With
\* UpperSeq() == 0 it returns nil at once and leaves syncComplete as it is.
FinalSync ==
  /\ pc = "final"
  /\ IF upperSeq = 0
       THEN pc' = "decide" /\ UNCHANGED <<syncComplete, flushFrom>>
       ELSE pc' = "fData" /\ syncComplete' = FALSE /\ flushFrom' = "final"
  /\ abortRan' = FALSE
  /\ recovered' = FALSE
  /\ UNCHANGED <<dbCore, dbCount, blockIdx, syncFiles, hSnap, rawBuffers, todo, err1,
                 drainedNow, failedNow, signalledNow, syncRet, startSizes, faults>>
  /\ UNCHANGED notSync

\* syncHandle.sync: a step returned an error.  The deferred abort runs and
\* the error goes to the caller: the callback stores it in err1 and breaks,
\* Sync returns it after the final call.
FlushFailed ==
  /\ faults < MaxFaults
  /\ faults' = faults + 1
  /\ failedNow' = TRUE
  /\ syncComplete' = syncComplete
  /\ abort(dbCount)
  /\ abortRan' = TRUE
  /\ recovered' = FALSE
  /\ IF flushFrom = "each"
       THEN err1' = TRUE /\ pc' = "cbret" /\ syncRet' = syncRet
       ELSE err1' = err1 /\ pc' = "finish" /\ syncRet' = "err"
  /\ UNCHANGED <<dbCore, hSnap, runInfo>>
  /\ UNCHANGED notSync

\* What a step of syncHandle.sync that succeeded leaves alone.
FlushStepDone ==
  /\ abortRan' = FALSE
  /\ recovered' = FALSE
  /\ UNCHANGED <<dbCore, dbCount, hSnap, syncComplete, rawBuffers, runInfo, err1,
                 failedNow, syncRet, faults, durable>>
  /\ UNCHANGED notSync

\* An order of the steps in which the index blocks are written before the
\* window entries.
nextStepIndexFirst(step) ==
  CASE step = "fData" -> "fExtend"
    [] step = "fExtend" -> "fBlock"
    [] step = "fBlock" -> "fWindow"
    [] step = "fWindow" -> "fSync"

\* syncHandle.sync: the call that follows a call that returned nil.
nextStep(step) ==
  CASE step = "fData" -> "fExtend"
    [] step = "fExtend" -> "fWindow"
    [] step = "fWindow" -> "fBlock"
    [] step = "fBlock" -> "fSync"

\* syncHandle.sync: dataWriter.write()
FlushData(fail) ==
  /\ pc = "fData"
  /\ IF fail THEN FlushFailed /\ UNCHANGED durable
     ELSE /\ dataFile' = dataFile \o rawData
          /\ pc' = nextStep("fData")
          /\ FlushStepDone
          /\ UNCHANGED <<indexFile, indexSize, winFile, blockIdx>>

\* syncHandle.sync: extendBlocks when the index file has too few blocks
FlushExtend(fail) ==
  /\ pc = "fExtend"
  /\ LET need == (upperSeq - 1) \div entriesPerIndexBlock
     IN IF need > blockIdx
          THEN IF fail THEN FlushFailed /\ UNCHANGED durable
               ELSE /\ indexSize' = indexSize + (need - blockIdx)
                    /\ blockIdx' = need
                    /\ pc' = nextStep("fExtend")
                    /\ FlushStepDone
                    /\ UNCHANGED <<dataFile, indexFile, winFile>>
          ELSE /\ ~fail
               /\ pc' = nextStep("fExtend")
               /\ FlushStepDone
               /\ UNCHANGED <<dataFile, indexFile, indexSize, winFile, blockIdx>>

\* syncHandle.sync: windowWriter.write()
FlushWindow(fail) ==
  /\ pc = "fWindow"
  /\ IF fail THEN FlushFailed /\ UNCHANGED durable
     ELSE /\ winFile' = winFile \o rawWindow
          /\ pc' = nextStep("fWindow")
          /\ FlushStepDone
          /\ UNCHANGED <<dataFile, indexFile, indexSize, blockIdx>>

\* syncHandle.sync: blockWriter.write()
FlushBlock(fail) ==
  /\ pc = "fBlock"
  /\ IF fail THEN FlushFailed /\ UNCHANGED durable
     ELSE /\ indexFile' = indexFile \cup Range(rawBlock)
          /\ pc' = nextStep("fBlock")
          /\ FlushStepDone
          /\ UNCHANGED <<dataFile, indexSize, winFile, blockIdx>>

\* syncHandle.sync: DB.sync() fails in writeHeader ("header"), in index.Sync
\* ("index", the window file is synced) or in data.Sync ("data", the window
\* and index files are synced).
FlushFsyncFail(at) ==
  /\ pc = "fSync"
  /\ winDur' = IF at = "header" THEN winDur ELSE winFile
  /\ indexDur' = IF at = "data" THEN indexFile ELSE indexDur
  /\ indexSizeDur' = IF at = "data" THEN indexSize ELSE indexSizeDur
  /\ dataDur' = dataDur
  /\ FlushFailed

\* syncHandle.sync: DB.sync() returns nil; incount, syncComplete = true, and
\* the deferred abort resets the buffers.
FlushFsync ==
  /\ pc = "fSync"
  /\ winDur' = winFile
  /\ indexDur' = indexFile
  /\ indexSizeDur' = indexSize
  /\ dataDur' = dataFile
  /\ syncComplete' = TRUE
  /\ abort(dbCount + hCount)
  /\ pc' = IF flushFrom = "each" THEN "each" ELSE "decide"
  /\ abortRan' = FALSE
  /\ recovered' = FALSE
  /\ UNCHANGED <<dbCore, hSnap, runInfo, err1, failedNow, syncRet, faults>>
  /\ UNCHANGED notSync

\* Sync: if db.syncComplete, wal.SignalLogApplied(db.logSeq()), which releases
\* the logs of that time-id and returns nil; Sync returns nil.
SignalApplied ==
  /\ pc = "decide"
  /\ IF syncComplete
       THEN /\ logs' = [t \in 1..MaxLogSeq |-> IF t = hLogSeq THEN {} ELSE logs[t]]
            /\ signalledNow' = TRUE
       ELSE UNCHANGED <<logs, signalledNow>>
  /\ syncRet' = "nil"
  /\ pc' = "finish"
  /\ abortRan' = FALSE
  /\ recovered' = FALSE
  /\ UNCHANGED <<dbSeq, mem, window, dbLogSeq, dbCount, blockIdx, syncFiles, syncHandle,
                 todo, err1, flushFrom, drainedNow, failedNow, startSizes, batches,
                 syncs, faults, crashes>>
  /\ UNCHANGED notSync

\* DB.Sync after syncHandle.Sync returned: finish()
finish ==
  /\ pc = "finish"
  /\ IF syncStatusOk
       THEN lastSyncSeq' = upperSeq /\ syncStatusOk' = FALSE
       ELSE UNCHANGED <<lastSyncSeq, syncStatusOk>>
  /\ pc' = "idle"
  /\ abortRan' = FALSE
  /\ recovered' = FALSE
  /\ UNCHANGED <<dbCore, dbCount, blockIdx, syncFiles, startBlockIdx, hLogSeq,
                 syncComplete, rawBuffers, winOff, blockOff, dataOff, upperSeq,
                 runInfo, err1, failedNow, syncRet, faults>>
  /\ UNCHANGED notSync

\* The process crashes.  The memtable, the time window and the sync handle
\* are gone; each file keeps what was written to it or falls back to what its
\* last fsync made durable; the write-ahead log keeps its unapplied logs.
Crash(keepData, keepIndex, keepWindow) ==
  /\ pc # "down"
  /\ crashes < MaxCrashes
  /\ crashes' = crashes + 1
  /\ mem' = {}
  /\ window' = {}
  /\ dataFile' = IF keepData THEN dataFile ELSE dataDur
  /\ indexFile' = IF keepIndex THEN indexFile ELSE indexDur
  /\ indexSize' = IF keepIndex THEN indexSize ELSE indexSizeDur
  /\ winFile' = IF keepWindow THEN winFile ELSE winDur
  /\ dataDur' = dataFile'
  /\ indexDur' = indexFile'
  /\ indexSizeDur' = indexSize'
  /\ winDur' = winFile'
  /\ blockIdx' = indexSize' - 1
  /\ startBlockIdx' = 0
  /\ lastSyncSeq' = 0
  /\ hLogSeq' = 0
  /\ syncStatusOk' = FALSE
  /\ syncComplete' = FALSE
  /\ hCount' = 0
  /\ rawData' = <<>>
  /\ rawBlock' = <<>>
  /\ rawWindow' = <<>>
  /\ winOff' = 0
  /\ blockOff' = 0
  /\ dataOff' = 0
  /\ upperSeq' = 0
  /\ pc' = "down"
  /\ todo' = {}
  /\ err1' = FALSE
  /\ abortRan' = FALSE
  /\ recovered' = FALSE
  /\ UNCHANGED <<dbSeq, logs, dbLogSeq, dbCount, flushFrom, drainedNow, failedNow,
                 signalledNow, syncRet, startSizes, batches, syncs, faults>>
  /\ UNCHANGED notSync

SyncCrash ==
  \E keepData \in BOOLEAN : \E keepIndex \in BOOLEAN : \E keepWindow \in BOOLEAN :
     Crash(keepData, keepIndex, keepWindow)

\* Open after a crash: recovery replays every log the write-ahead log offers
\* into the memtable and the time window.
Reopen ==
  /\ pc = "down"
  /\ mem' = UNION { logs[t] : t \in 1..MaxLogSeq }
  /\ window' = UNION { logs[t] : t \in 1..MaxLogSeq }
  /\ pc' = "idle"
  /\ recovered' = TRUE
  /\ abortRan' = FALSE
  /\ UNCHANGED <<dbSeq, logs, dbLogSeq, dbCount, blockIdx, syncFiles, syncHandle, todo,
                 err1, flushFrom, drainedNow, failedNow, signalledNow, syncRet,
                 startSizes, batches, syncs, faults, crashes>>
  /\ UNCHANGED notSync

SyncFlushData == \E fail \in BOOLEAN : FlushData(fail)
SyncFlushExtend == \E fail \in BOOLEAN : FlushExtend(fail)
SyncFlushWindow == \E fail \in BOOLEAN : FlushWindow(fail)
SyncFlushBlock == \E fail \in BOOLEAN : FlushBlock(fail)
SyncFlushFsyncFail == \E at \in {"header", "index", "data"} : FlushFsyncFail(at)

SyncNext ==
  \/ BatchWriteCommit
  \/ startSync
  \/ SyncEachTopic
  \/ CallbackReturn
  \/ CallbackError
  \/ StartRecovery
  \/ FinalSync
  \/ SyncFlushData
  \/ SyncFlushExtend
  \/ SyncFlushWindow
  \/ SyncFlushBlock
  \/ SyncFlushFsyncFail
  \/ FlushFsync
  \/ SignalApplied
  \/ finish
  \/ SyncCrash
  \/ Reopen

SpecSync == SyncInit /\ [][SyncNext]_vars

\* An entry can be read: from the memtable, or through its index entry from
\* the data file.
Readable(s) == s \in mem \/ (s \in indexFile /\ s \in Range(dataFile))

\* C1: when the DB has been reopened and recovered after a crash, every
\* committed batch has all of its entries readable or none of them.
CrashAtomicity ==
  recovered => \A b \in batches : (\A s \in b : Readable(s)) \/ (\A s \in b : ~Readable(s))

\* C2: when Sync has called SignalLogApplied, every window entry this Sync
\* call drained is in the data, index and window files as of their last fsync.
SignalOnlyAfterDurable ==
  (pc = "finish" /\ signalledNow) =>
     \A s \in drainedNow : s \in Range(dataDur) /\ s \in indexDur /\ s \in Range(winDur)

\* C3: when a step of a Sync call has failed, Sync returns an error and has
\* not called SignalLogApplied.
SyncFailureReported ==
  (pc = "finish" /\ failedNow) => (syncRet = "err" /\ ~signalledNow)

WrittenSeqs == UNION batches

\* C36 (as stated, violated): while the process has not crashed, every
\* entry that was written is readable from the memtable or from the files.
WrittenEntryReadable ==
  (crashes = 0 /\ pc # "down") => \A s \in WrittenSeqs : Readable(s)

\* C36 (helper, holds): between Sync calls that met no failure every entry
\* that was written is readable.
WrittenEntryReadableBetweenSyncs ==
  (crashes = 0 /\ faults = 0 /\ pc = "idle") => \A s \in WrittenSeqs : Readable(s)

(***************************************************************************)
(*                            THE EXPIRER                                  *)
(***************************************************************************)

\* Bound: the clock runs from 1 to MaxNow.
MaxNow == 3

\* Bound: Options.DefaultQueryLimit, the number of entries one run of the
\* expirer takes from the time window.
DefaultQueryLimit == 3

\* _BlockReader.readEntry: "nil" stands for the entry returned with a nil
\* error, "errRead" for the error of readIndexBlock on a block that lies
\* behind the end of the index file.
readEntry(seq) ==
  IF startBlockIndex(seq) >= expBlocks THEN "errRead"
  ELSE IF expIndex[seq] = 0 THEN "errEntryInvalid"
  ELSE IF expIndex[seq] = -1 THEN "errMsgIDDeleted"
  ELSE "nil"

\* timeWindow.expireOldEntries: the entries whose expiresAt lies before now,
\* in the order they were added, at most limit of them.
expireOldEntries(limit) ==
  LET due == SeqOf({ e.seq : e \in { w \in expWindow :
                                       w.expiresAt # 0 /\ w.expiresAt < expNow } })
  IN IF Len(due) > limit THEN SubSeq(due, 1, limit) ELSE due

\* DB.expireEntries, the loop over the expired entries.  fp holds the seqs
\* for which filter.Test answers yes although they were never appended; st
\* holds the seqs handed to lease.free and DB.count.
RECURSIVE expireLoop(_, _, _, _)
expireLoop(es, i, fp, st) ==
  IF i > Len(es) THEN st
  ELSE LET seq == es[i]
       IN IF seq \notin expFilter /\ seq \notin fp
            THEN expireLoop(es, i + 1, fp, st)              \* continue
          ELSE IF startBlockIndex(seq) >= expBlocks
            THEN st                                         \* io.EOF: return nil
          ELSE IF expIndex[seq] = 0
            THEN st                                         \* entryIdx == -1: return nil
          ELSE expireLoop(es, i + 1, fp,
                          [freed |-> st.freed \cup {seq}, count |-> st.count - 1])

ExpireInit ==
  /\ ExpireIdle
  /\ BatchIdle
  /\ WalIdle
  /\ IndexIdle
  /\ SyncIdle
  /\ TrieIdle
  /\ WriteIdle
  /\ OpenIdle

\* An entry is written: it gets the next seq and goes to the memtable and,
\* with its expiresAt, to the time window.  expiresAt is 0 (no ttl) or the
\* present time (the entry is expired as soon as the clock has moved on).
ExpWrite(withTTL) ==
  /\ expSeq < MaxExpSeq
  /\ expSeq' = expSeq + 1
  /\ expMem' = expMem \cup {expSeq + 1}
  /\ expWindow' = expWindow \cup
        {[seq |-> expSeq + 1, expiresAt |-> IF withTTL THEN expNow ELSE 0]}
  /\ expDrained' = {}
  /\ UNCHANGED <<expNow, expFilter, expIndex, expBlocks, expCount, expFreed>>
  /\ UNCHANGED notExpire

ExpPut == \E withTTL \in BOOLEAN : ExpWrite(withTTL)

\* A Sync that succeeds: every entry of the memtable gets its index entry
\* (the message of seq lies at data offset seq), the index file is extended
\* to hold it, the seq is appended to the filter and counted.
ExpSync ==
  /\ expMem # {}
  /\ expIndex' = [s \in 1..MaxExpSeq |-> IF s \in expMem THEN s ELSE expIndex[s]]
  /\ expBlocks' = SeqMax(expBlocks, startBlockIndex(expSeq) + 1)
  /\ expFilter' = expFilter \cup expMem
  /\ expCount' = expCount + Cardinality(expMem)
  /\ expMem' = {}
  /\ expDrained' = {}
  /\ UNCHANGED <<expSeq, expNow, expWindow, expFreed>>
  /\ UNCHANGED notExpire

\* Time passes.
ExpTick ==
  /\ expNow < MaxNow
  /\ expNow' = expNow + 1
  /\ expDrained' = {}
  /\ UNCHANGED <<expSeq, expWindow, expMem, expFilter, expIndex, expBlocks,
                 expCount, expFreed>>
  /\ UNCHANGED notExpire

\* DB.expireEntries
expireEntries(fp) ==
  LET es == expireOldEntries(DefaultQueryLimit)
      st == expireLoop(es, 1, fp, [freed |-> expFreed, count |-> expCount])
  IN /\ es # <<>>
     /\ fp \cap expFilter = {}
     /\ expWindow' = { w \in expWindow : w.seq \notin Range(es) }
     /\ expFreed' = st.freed
     /\ expCount' = st.count
     /\ expDrained' = Range(es)
     /\ UNCHANGED <<expSeq, expNow, expMem, expFilter, expIndex, expBlocks>>
     /\ UNCHANGED notExpire

ExpExpire == \E fp \in SUBSET (1..MaxExpSeq) : expireEntries(fp)

ExpireNext == ExpPut \/ ExpSync \/ ExpTick \/ ExpExpire

SpecExpire == ExpireInit /\ [][ExpireNext]_vars

\* C11: when expireEntries has run, no entry the time window handed out as
\* expired can be read: readEntry of its seq returns errMsgIDDeleted or does
\* not find the entry.
ExpiredNotReadable ==
  \A seq \in expDrained : readEntry(seq) # "nil"

(***************************************************************************)
(*                          THE TOPIC TRIE                                 *)
(***************************************************************************)

\* Bound: the number of parts of a topic.
MaxParts == 2

\* Bound: message seqs are drawn from 1..MaxTrieSeq.
MaxTrieSeq == 2

\* Bound: the number of Add and Remove calls.
MaxTrieOps == 3

\* Bound: TopicMaxDepth, the depth from which on a topic ends in a
\* multi-level wildcard.
TopicMaxDepth == 2

\* Bound: the width of the uint8 fields depth and wildchars.
Uint8 == 256

Contracts == 1..NTrieProcs
TrieSeqs == 1..MaxTrieSeq

\* key{query, wildchars}
TrieKey(q, w) == [query |-> q, wildchars |-> w]

\* The values of []Part made of the keys K.
PartsOf(K) == UNION { [1..n -> K] : n \in 0..MaxParts }

\* &part{k, ss: ssid{}, parent, children: make(map[key]*part)}
NewPart(k, parent) ==
  [k |-> k, depth |-> 0, ss |-> <<>>, parent |-> parent, children |-> <<>>]

\* The depths a caller of Add passes: that of a topic without wildcards or,
\* where the callers use wildcards, that of a topic that ends in a
\* multi-level wildcard.
AddDepths(parts, K) ==
  {(Len(parts) - 1) % Uint8}
    \cup (IF \E k \in K : k.wildchars > 0 THEN {TopicMaxDepth} ELSE {})

\* ssid.contains
contains(ss, value) == \E i \in 1..Len(ss) : ss[i] = value

\* ssid.remove: the first element equal to value is overwritten with the
\* last element and the slice is cut by one.
ssRemove(ss, value) ==
  IF ~contains(ss, value) THEN ss
  ELSE LET i == Min({ j \in 1..Len(ss) : ss[j] = value })
       IN SubSeq([ss EXCEPT ![i] = ss[Len(ss)]], 1, Len(ss) - 1)

\* delete(children, k)
deleteKey(children, k) == [x \in (DOMAIN children) \ {k} |-> children[x]]

\* An orphan that takes the part out of its parent and stops there.
orphanOnce(N, id) ==
  IF N[id].parent = 0 THEN N
  ELSE [N EXCEPT ![N[id].parent].children = deleteKey(@, N[id].k)]

\* part.orphan
RECURSIVE orphan(_, _)
orphan(N, id) ==
  IF N[id].parent = 0 THEN N
  ELSE LET par == N[id].parent
           N1 == [N EXCEPT ![par].children = deleteKey(@, N[id].k)]
       IN IF Len(N1[par].ss) = 0 /\ DOMAIN N1[par].children = {}
            THEN orphan(N1, par)
            ELSE N1

\* The test of ilookup on the depth recorded at a part.
depthMatches(d, depth) ==
  d = depth \/ (d >= TopicMaxDepth /\ depth > d - TopicMaxDepth)

\* A walk that consumes one part per child whatever its wildchars.
consumesOne(k) == 1

\* The number of parts a child with key k consumes: k.wildchars+1 in uint8.
consumes(k) == (k.wildchars + 1) % Uint8

\* Trie.ilookup: the seqs appended to ss, the children being visited in some
\* order.
RECURSIVE ilookup(_, _, _, _)
RECURSIVE ilookupChildren(_, _, _, _, _)
ilookup(N, parts, depth, id) ==
  (IF depthMatches(N[id].depth, depth) THEN N[id].ss ELSE <<>>)
    \o (IF Len(parts) > 0
          THEN ilookupChildren(N, parts, depth, id, DOMAIN N[id].children)
          ELSE <<>>)

ilookupChildren(N, parts, depth, id, ks) ==
  IF ks = {} THEN <<>>
  ELSE LET k == CHOOSE x \in ks : TRUE
       IN (IF k.query = parts[1].query /\ Len(parts) % Uint8 >= consumes(k)
             THEN ilookup(N, SubSeq(parts, consumes(k) + 1, Len(parts)), depth,
                          N[id].children[k])
             ELSE <<>>)
            \o ilookupChildren(N, parts, depth, id, ks \ {k})

\* Trie.Lookup
lookup(N, parts) == ilookup(N, parts, (Len(parts) - 1) % Uint8, 1)

\* The trie of one goroutine: topics of up to MaxParts parts over two queries,
\* the first of them with and without wildchars.
TrieInit ==
  /\ trNodes = <<RootPart>>
  /\ trCount = 0
  /\ trMu = {}
  /\ trPc = [p \in TrieProcs |-> "idle"]
  /\ trArg = [p \in TrieProcs |-> NoCall]
  /\ trCurr = [p \in TrieProcs |-> 0]
  /\ trI = [p \in TrieProcs |-> 0]
  /\ trProcs = {1}
  /\ trKeys = {TrieKey(1, 0), TrieKey(1, 1), TrieKey(2, 0)}
  /\ trContracts = {1}
  /\ trSeqs = {1}
  /\ trLast = NoCall
  /\ trLook = NoCall
  /\ trOps = 0
  /\ trNet = 0
  /\ BatchIdle
  /\ WalIdle
  /\ IndexIdle
  /\ SyncIdle
  /\ ExpireIdle
  /\ WriteIdle
  /\ OpenIdle

\* The trie of NTrieProcs goroutines that work on the topics made of one
\* part without wildchars.
TrieConcInit ==
  /\ trNodes = <<RootPart>>
  /\ trCount = 0
  /\ trMu = {}
  /\ trPc = [p \in TrieProcs |-> "idle"]
  /\ trArg = [p \in TrieProcs |-> NoCall]
  /\ trCurr = [p \in TrieProcs |-> 0]
  /\ trI = [p \in TrieProcs |-> 0]
  /\ trProcs = TrieProcs
  /\ trKeys = {TrieKey(1, 0)}
  /\ trContracts = Contracts
  /\ trSeqs = TrieSeqs
  /\ trLast = NoCall
  /\ trLook = NoCall
  /\ trOps = 0
  /\ trNet = 0
  /\ BatchIdle
  /\ WalIdle
  /\ IndexIdle
  /\ SyncIdle
  /\ ExpireIdle
  /\ WriteIdle
  /\ OpenIdle

\* Trie.Add, up to the loop: the mutex of the contract is taken.
AddStart(p, contract, parts, depth, seq) ==
  /\ p \in trProcs
  /\ trPc[p] = "idle"
  /\ trOps < MaxTrieOps
  /\ contract \notin trMu
  /\ trMu' = trMu \cup {contract}
  /\ trPc' = [trPc EXCEPT ![p] = "addLoop"]
  /\ trArg' = [trArg EXCEPT ![p] = [op |-> "Add", contract |-> contract,
                                    parts |-> parts, depth |-> depth, seq |-> seq]]
  /\ trCurr' = [trCurr EXCEPT ![p] = 1]
  /\ trI' = [trI EXCEPT ![p] = 0]
  /\ trOps' = trOps + 1
  /\ trLast' = NoCall
  /\ trLook' = NoCall
  /\ UNCHANGED <<trNodes, trCount, trNet, trProcs, trKeys, trContracts, trSeqs>>
  /\ UNCHANGED notTrie

\* Trie.Add, the loop: curr.children[k] is read under the read lock.
AddRead(p) ==
  /\ trPc[p] = "addLoop"
  /\ trI[p] < Len(trArg[p].parts)
  /\ LET k == trArg[p].parts[trI[p] + 1]
         children == trNodes[trCurr[p]].children
     IN IF k \in DOMAIN children
          THEN /\ trCurr' = [trCurr EXCEPT ![p] = children[k]]
               /\ trI' = [trI EXCEPT ![p] = @ + 1]
               /\ UNCHANGED trPc
          ELSE /\ trPc' = [trPc EXCEPT ![p] = "addInsert"]
               /\ UNCHANGED <<trCurr, trI>>
  /\ trLook' = NoCall
  /\ UNCHANGED <<trNodes, trCount, trMu, trArg, trNet, trProcs, trKeys, trContracts, trSeqs,
                 trLast, trOps>>
  /\ UNCHANGED notTrie

\* Trie.Add, the loop: a new child is put into curr.children under the write
\* lock.
AddInsert(p) ==
  /\ trPc[p] = "addInsert"
  /\ LET k == trArg[p].parts[trI[p] + 1]
         id == Len(trNodes) + 1
     IN /\ trNodes' = Append([trNodes EXCEPT ![trCurr[p]].children = (k :> id) @@ @],
                             NewPart(k, trCurr[p]))
        /\ trCurr' = [trCurr EXCEPT ![p] = id]
  /\ trI' = [trI EXCEPT ![p] = @ + 1]
  /\ trPc' = [trPc EXCEPT ![p] = "addLoop"]
  /\ trLook' = NoCall
  /\ UNCHANGED <<trCount, trMu, trArg, trNet, trProcs, trKeys, trContracts, trSeqs, trLast, trOps>>
  /\ UNCHANGED notTrie

\* Trie.Add, behind the loop: the seq is appended, the depth recorded, the
\* count raised, and the mutex of the contract given back.
AddFinish(p) ==
  /\ trPc[p] = "addLoop"
  /\ trI[p] = Len(trArg[p].parts)
  /\ trNodes' = [trNodes EXCEPT ![trCurr[p]].ss = Append(@, trArg[p].seq),
                                ![trCurr[p]].depth = trArg[p].depth]
  /\ trCount' = trCount + 1
  /\ trNet' = trNet + 1
  /\ trMu' = trMu \ {trArg[p].contract}
  /\ trLast' = [op |-> "Add", parts |-> trArg[p].parts, depth |-> trArg[p].depth,
                seq |-> trArg[p].seq, leaf |-> trCurr[p]]
  /\ trPc' = [trPc EXCEPT ![p] = "idle"]
  /\ trArg' = [trArg EXCEPT ![p] = NoCall]
  /\ trLook' = NoCall
  /\ UNCHANGED <<trCurr, trI, trProcs, trKeys, trContracts, trSeqs, trOps>>
  /\ UNCHANGED notTrie

\* Trie.Remove, up to the loop.
RemoveStart(p, contract, parts, seq) ==
  /\ p \in trProcs
  /\ trPc[p] = "idle"
  /\ trOps < MaxTrieOps
  /\ contract \notin trMu
  /\ trMu' = trMu \cup {contract}
  /\ trPc' = [trPc EXCEPT ![p] = "removeLoop"]
  /\ trArg' = [trArg EXCEPT ![p] = [op |-> "Remove", contract |-> contract,
                                    parts |-> parts, seq |-> seq, removed |-> FALSE,
                                    before |-> [nodes |-> trNodes, count |-> trCount]]]
  /\ trCurr' = [trCurr EXCEPT ![p] = 1]
  /\ trI' = [trI EXCEPT ![p] = 0]
  /\ trOps' = trOps + 1
  /\ trLast' = NoCall
  /\ trLook' = NoCall
  /\ UNCHANGED <<trNodes, trCount, trNet, trProcs, trKeys, trContracts, trSeqs>>
  /\ UNCHANGED notTrie

\* Trie.Remove, the loop: Remove returns false when the child is missing.
RemoveRead(p) ==
  /\ trPc[p] = "removeLoop"
  /\ trI[p] < Len(trArg[p].parts)
  /\ LET k == trArg[p].parts[trI[p] + 1]
         children == trNodes[trCurr[p]].children
     IN IF k \in DOMAIN children
          THEN /\ trCurr' = [trCurr EXCEPT ![p] = children[k]]
               /\ trI' = [trI EXCEPT ![p] = @ + 1]
               /\ UNCHANGED <<trPc, trArg, trMu, trLast>>
          ELSE /\ trPc' = [trPc EXCEPT ![p] = "idle"]
               /\ trMu' = trMu \ {trArg[p].contract}
               /\ trLast' = [op |-> "Remove", parts |-> trArg[p].parts,
                             seq |-> trArg[p].seq, removed |-> FALSE,
                             found |-> FALSE, leaf |-> 0,
                             before |-> trArg[p].before]
               /\ trArg' = [trArg EXCEPT ![p] = NoCall]
               /\ UNCHANGED <<trCurr, trI>>
  /\ trLook' = NoCall
  /\ UNCHANGED <<trNodes, trCount, trNet, trProcs, trKeys, trContracts, trSeqs, trOps>>
  /\ UNCHANGED notTrie

\* Trie.Remove, behind the loop: the seq is removed from curr.ss and the
\* count lowered if it was there.
RemoveSeq(p) ==
  /\ trPc[p] = "removeLoop"
  /\ trI[p] = Len(trArg[p].parts)
  /\ LET ok == contains(trNodes[trCurr[p]].ss, trArg[p].seq)
     IN /\ trNodes' = [trNodes EXCEPT ![trCurr[p]].ss = ssRemove(@, trArg[p].seq)]
        /\ trCount' = IF ok THEN trCount - 1 ELSE trCount
        /\ trNet' = IF ok THEN trNet - 1 ELSE trNet
        /\ trArg' = [trArg EXCEPT ![p].removed = ok]
  /\ trPc' = [trPc EXCEPT ![p] = "removeOrphans"]
  /\ trLook' = NoCall
  /\ UNCHANGED <<trMu, trCurr, trI, trProcs, trKeys, trContracts, trSeqs, trLast, trOps>>
  /\ UNCHANGED notTrie

\* Trie.Remove, the orphans: under the write lock curr is taken out of the
\* trie if it has neither seqs nor children; then Remove returns.
RemoveOrphans(p) ==
  /\ trPc[p] = "removeOrphans"
  /\ LET curr == trNodes[trCurr[p]]
     IN trNodes' = IF Len(curr.ss) = 0 /\ DOMAIN curr.children = {}
                     THEN orphan(trNodes, trCurr[p])
                     ELSE trNodes
  /\ trMu' = trMu \ {trArg[p].contract}
  /\ trLast' = [op |-> "Remove", parts |-> trArg[p].parts, seq |-> trArg[p].seq,
                removed |-> trArg[p].removed, found |-> TRUE, leaf |-> trCurr[p],
                before |-> trArg[p].before]
  /\ trPc' = [trPc EXCEPT ![p] = "idle"]
  /\ trArg' = [trArg EXCEPT ![p] = NoCall]
  /\ trLook' = NoCall
  /\ UNCHANGED <<trCount, trCurr, trI, trNet, trProcs, trKeys, trContracts, trSeqs, trOps>>
  /\ UNCHANGED notTrie

\* Trie.Lookup, under the read lock, called while no Add and no Remove is
\* in progress.
Lookup(parts) ==
  /\ trLook = NoCall
  /\ \A p \in TrieProcs : trPc[p] = "idle"
  /\ trLook' = [op |-> "Lookup", parts |-> parts, ret |-> lookup(trNodes, parts)]
  /\ UNCHANGED <<trNodes, trCount, trMu, trPc, trArg, trCurr, trI, trNet, trProcs,
                 trKeys, trContracts, trSeqs, trLast, trOps>>
  /\ UNCHANGED notTrie

TrieAdd ==
  \E p \in TrieProcs, contract \in trContracts, parts \in PartsOf(trKeys),
     seq \in trSeqs :
       \E depth \in AddDepths(parts, trKeys) : AddStart(p, contract, parts, depth, seq)

TrieRemove ==
  \E p \in TrieProcs, contract \in trContracts, parts \in PartsOf(trKeys),
     seq \in trSeqs : RemoveStart(p, contract, parts, seq)

TrieAddRead == \E p \in TrieProcs : AddRead(p)
TrieAddInsert == \E p \in TrieProcs : AddInsert(p)
TrieAddFinish == \E p \in TrieProcs : AddFinish(p)
TrieRemoveRead == \E p \in TrieProcs : RemoveRead(p)
TrieRemoveSeq == \E p \in TrieProcs : RemoveSeq(p)
TrieRemoveOrphans == \E p \in TrieProcs : RemoveOrphans(p)
TrieLookup == \E parts \in PartsOf(trKeys) : Lookup(parts)

TrieNext ==
  \/ TrieAdd
  \/ TrieAddRead
  \/ TrieAddInsert
  \/ TrieAddFinish
  \/ TrieRemove
  \/ TrieRemoveRead
  \/ TrieRemoveSeq
  \/ TrieRemoveOrphans
  \/ TrieLookup

SpecTrie == TrieInit /\ [][TrieNext]_vars

SpecTrieConc == TrieConcInit /\ [][TrieNext]_vars

\* Trie.Add, behind the loop, when t.count++ is not one step: the seq is
\* appended, the depth recorded and t.count read.  Only the mutex of the
\* contract is held, so a goroutine with another contract can be at the
\* same place.
AddLoad(p) ==
  /\ trPc[p] = "addLoop"
  /\ trI[p] = Len(trArg[p].parts)
  /\ trNodes' = [trNodes EXCEPT ![trCurr[p]].ss = Append(@, trArg[p].seq),
                                ![trCurr[p]].depth = trArg[p].depth]
  /\ trArg' = [trArg EXCEPT ![p] = [op |-> "Add", contract |-> trArg[p].contract,
                                    parts |-> trArg[p].parts, depth |-> trArg[p].depth,
                                    seq |-> trArg[p].seq, loaded |-> trCount]]
  /\ trPc' = [trPc EXCEPT ![p] = "addCount"]
  /\ trLook' = NoCall
  /\ UNCHANGED <<trCount, trMu, trCurr, trI, trNet, trProcs, trKeys, trContracts, trSeqs,
                 trLast, trOps>>
  /\ UNCHANGED notTrie

\* Trie.Add: the second half of t.count++ stores the value read plus one;
\* then Add returns and gives the mutex of the contract back.
AddStore(p) ==
  /\ trPc[p] = "addCount"
  /\ trCount' = trArg[p].loaded + 1
  /\ trNet' = trNet + 1
  /\ trMu' = trMu \ {trArg[p].contract}
  /\ trLast' = [op |-> "Add", parts |-> trArg[p].parts, depth |-> trArg[p].depth,
                seq |-> trArg[p].seq, leaf |-> trCurr[p]]
  /\ trPc' = [trPc EXCEPT ![p] = "idle"]
  /\ trArg' = [trArg EXCEPT ![p] = NoCall]
  /\ trLook' = NoCall
  /\ UNCHANGED <<trNodes, trCurr, trI, trProcs, trKeys, trContracts, trSeqs, trOps>>
  /\ UNCHANGED notTrie

TrieAddLoad == \E p \in TrieProcs : AddLoad(p)
TrieAddStore == \E p \in TrieProcs : AddStore(p)

\* The steps of the trie when the unlocked t.count++ of Add may be
\* interleaved with other goroutines (AddLoad, AddStore) or not (AddFinish).
TrieRaceNext ==
  \/ TrieAdd
  \/ TrieAddRead
  \/ TrieAddInsert
  \/ TrieAddFinish
  \/ TrieAddLoad
  \/ TrieAddStore
  \/ TrieRemove
  \/ TrieRemoveRead
  \/ TrieRemoveSeq
  \/ TrieRemoveOrphans
  \/ TrieLookup

SpecTrieRace == TrieConcInit /\ [][TrieRaceNext]_vars

\* The goroutine p is about to write curr.ss and t.count without the trie's
\* lock: behind the loop of Add, or behind the loop of Remove.
AtUnlockedWrite(p) ==
  /\ trPc[p] \in {"addLoop", "removeLoop"}
  /\ trI[p] = Len(trArg[p].parts)

AllIdle == \A p \in TrieProcs : trPc[p] = "idle"

\* C35 (helper, violated): no two goroutines are at the unlocked write of a
\* seq-set and of the count at the same time.
NoTwoAtUnlockedWrite ==
  \A p, q \in TrieProcs : p # q => ~(AtUnlockedWrite(p) /\ AtUnlockedWrite(q))

\* C35 (helper, holds): goroutines that are at the unlocked write at the
\* same time have different contracts.
UnlockedWritersDiffer ==
  \A p, q \in TrieProcs :
    p # q /\ AtUnlockedWrite(p) /\ AtUnlockedWrite(q) =>
      trArg[p].contract # trArg[q].contract

\* C35 (as stated, violated): when every call has returned, the count is
\* the number of Adds less the number of Removes that returned true.
CountIsAddsLessRemoves == AllIdle => trCount = trNet

\* The parts reachable from the part id along the children maps.
RECURSIVE reachFrom(_, _)
reachFrom(N, id) ==
  {id} \cup UNION { reachFrom(N, N[id].children[k]) : k \in DOMAIN N[id].children }

NoAddInProgress == \A p \in TrieProcs : trArg[p].op # "Add"
NoRemoveInProgress == \A p \in TrieProcs : trArg[p].op # "Remove"

\* Every part of the trie but the root holds a seq or has a child.
NoEmptyLeaf ==
  \A id \in reachFrom(trNodes, 1) \ {1} :
     Len(trNodes[id].ss) > 0 \/ DOMAIN trNodes[id].children # {}

\* C13 as stated: in every state in which a Remove has just returned and no
\* Add is in progress, every part reachable from the root, the root left
\* aside, has a seq or a child.
OrphansGoneAfterRemove ==
  (trLast.op = "Remove" /\ NoAddInProgress) => NoEmptyLeaf

\* C13, amended: in every state in which a Remove has just returned and
\* neither an Add nor another Remove is in progress, every part reachable from
\* the root, the root left aside, has a seq or a child.
OrphansGoneWhenQuiescent ==
  (trLast.op = "Remove" /\ NoAddInProgress /\ NoRemoveInProgress) => NoEmptyLeaf

\* Witness for C13: a Remove took the last seq from a part two levels below
\* the root, and the part and its parent, left without seqs and children,
\* are gone from the trie.
RemoveOrphanedUpwards ==
  /\ trLast.op = "Remove"
  /\ trLast.removed
  /\ NoAddInProgress
  /\ NoRemoveInProgress
  /\ trNodes[trLast.leaf].parent > 1
  /\ reachFrom(trNodes, 1) = {1}

\* The keys on the way from the root to the part id.
RECURSIVE pathOf(_, _)
pathOf(N, id) ==
  IF N[id].parent = 0 THEN <<>> ELSE Append(pathOf(N, N[id].parent), N[id].k)

\* The number of query parts the first n keys of a path consume.
RECURSIVE consumed(_, _)
consumed(path, n) ==
  IF n = 0 THEN 0 ELSE consumed(path, n - 1) + path[n].wildchars + 1

\* The query parts lead to the part at the end of path: every key on the way
\* matches the part that is next when the walk gets to it, and as many parts
\* as it consumes are left.
leadsTo(parts, path) ==
  \A i \in 1..Len(path) :
     LET off == consumed(path, i - 1)
     IN /\ off < Len(parts)
        /\ path[i].query = parts[off + 1].query
        /\ Len(parts) - off >= path[i].wildchars + 1

\* How often value occurs in ss.
occurrences(ss, value) == Cardinality({ i \in 1..Len(ss) : ss[i] = value })

RECURSIVE occurrencesIn(_, _, _)
occurrencesIn(N, ids, value) ==
  IF ids = {} THEN 0
  ELSE LET id == CHOOSE x \in ids : TRUE
       IN occurrences(N[id].ss, value) + occurrencesIn(N, ids \ {id}, value)

\* The parts whose seqs a Lookup of the query parts is to return.
matching(N, parts) ==
  { id \in reachFrom(N, 1) :
      /\ leadsTo(parts, pathOf(N, id))
      /\ depthMatches(N[id].depth, (Len(parts) - 1) % Uint8) }

\* Lookup returns the seqs of the matching parts, each as often as it is
\* stored there, and nothing else.
LookupReturnsMatching ==
  trLook.op = "Lookup" =>
     \A seq \in TrieSeqs :
        occurrences(trLook.ret, seq)
          = occurrencesIn(trNodes, matching(trNodes, trLook.parts), seq)

\* Add(parts, len(parts)-1, seq) was the last call and Lookup(parts) ran
\* after it.
LookupAfterAdd ==
  /\ trLook.op = "Lookup"
  /\ trLast.op = "Add"
  /\ trLast.parts = trLook.parts
  /\ trLast.depth = (Len(trLast.parts) - 1) % Uint8

\* C14 as stated: Lookup returns exactly the seqs of the parts that the query
\* parts lead to and whose depth matches, and a Lookup of the parts that were
\* just added at depth len(parts)-1 returns the seq added.
LookupFindsWhatAddStored ==
  /\ LookupReturnsMatching
  /\ LookupAfterAdd => contains(trLook.ret, trLast.seq)

\* C14, amended: the same, the second part for parts without wildchars.
LookupFindsWhatAddStoredPlain ==
  /\ LookupReturnsMatching
  /\ (LookupAfterAdd /\ \A i \in 1..Len(trLast.parts) : trLast.parts[i].wildchars = 0)
        => contains(trLook.ret, trLast.seq)

\* Witness for C14: a Lookup of two parts returned a seq stored at a child of
\* the root whose key has one wildchar and so consumed both parts, and whose
\* depth matched by way of TopicMaxDepth.
LookupThroughWildchars ==
  /\ trLook.op = "Lookup"
  /\ Len(trLook.parts) = 2
  /\ trLook.ret # <<>>
  /\ \E id \in matching(trNodes, trLook.parts) :
        /\ trNodes[id].parent = 1
        /\ trNodes[id].k.wildchars = 1
        /\ trNodes[id].ss # <<>>
        /\ trNodes[id].depth # 1

\* C15: when Remove has returned true, the seq-set of the part that the parts
\* lead to no longer holds the seq, however often it was added there, and a
\* Lookup of the parts does not return it (unless another part holds it);
\* when Remove did not find the path, it has returned false and the trie and
\* its count are what they were when it was called.
RemoveTakesSeqOut ==
  /\ (trLast.op = "Remove" /\ trLast.removed) =>
        /\ ~contains(trNodes[trLast.leaf].ss, trLast.seq)
        /\ (/\ trLook.op = "Lookup"
            /\ trLook.parts = trLast.parts
            /\ \A id \in reachFrom(trNodes, 1) \ {trLast.leaf} :
                  ~contains(trNodes[id].ss, trLast.seq))
              => ~contains(trLook.ret, trLast.seq)
  /\ (trLast.op = "Remove" /\ ~trLast.found) =>
        /\ ~trLast.removed
        /\ trNodes = trLast.before.nodes
        /\ trCount = trLast.before.count

\* What Remove does to the seq-set when it has returned true: it takes out one
\* occurrence of the seq.
RemoveTakesOneOccurrence ==
  (trLast.op = "Remove" /\ trLast.removed) =>
     occurrences(trNodes[trLast.leaf].ss, trLast.seq) + 1
       = occurrences(trLast.before.nodes[trLast.leaf].ss, trLast.seq)

\* Remove did not find the path and returned false, the trie and its count
\* being what they were.
RemoveOfMissingPath ==
  (trLast.op = "Remove" /\ ~trLast.found) =>
     /\ ~trLast.removed
     /\ trNodes = trLast.before.nodes
     /\ trCount = trLast.before.count

(***************************************************************************)
(*              THE WRITE PATH: PutEntry, DeleteEntry, Write, Commit       *)
(***************************************************************************)

\* Bound: the topics of the entries are 1..MaxWrTopic; 0 is the empty topic.
MaxWrTopic == 1

\* Bound: the number of PutEntry and DeleteEntry calls made on one batch.
MaxWrCalls == 2

\* Bound: the width in bits of cacheID and of the sequence numbers.
SeqBits == 2

\* make(chan struct{}, 1): the capacity of DB.writeLockC.
WriteLockCap == 1

\* The 4-byte scratch that holds the frame length.
ScratchLen == 4

\* One byte of a length prefix, and the packed entry (one byte of the model).
LenByte == [kind |-> "len", seq |-> 0, topic |-> 0, del |-> FALSE]
Packed(seq, topic, del) == [kind |-> "entry", seq |-> seq, topic |-> topic, del |-> del]

Scratch == [i \in 1..ScratchLen |-> LenByte]

\* What the callers pass to PutEntry and to DeleteEntry: topic 0 is an empty
\* topic, payload 0 an empty payload, id 0 an empty ID.
PutInputs == [topic : 0..MaxWrTopic, payload : 0..1]
DeleteInputs == [topic : 0..MaxWrTopic, id : 0..1]

\* The calls inside PutEntry and DeleteEntry that can return an error.
PutFaults == {"none", "parseTopic", "setEntry", "packEntry", "writeLen", "writeData"}
DeleteFaults == PutFaults \ {"setEntry"}

\* The arguments that pass the checks at the head of PutEntry and DeleteEntry.
ValidInputs == { e \in PutInputs \cup DeleteInputs :
                   \A f \in DOMAIN e : e[f] # 0 }

\* The fields of a batch that PutEntry and DeleteEntry work on.
BatchState(bt) ==
  [index |-> bt.index, buffer |-> bt.buffer, size |-> bt.size,
   entryCount |-> bt.entryCount, topics |-> bt.topics]

PutResult(bt, err, seq) == [bt |-> bt, err |-> err, seq |-> seq]

\* Batch.PutEntry.  seq is the last sequence number given out; setEntry gives
\* the entry the next one.  The dedup key hash.WithSalt(e.val, hashCode) is
\* the topic (there is one payload).
putEntry(bt, e, seq, fault) ==
  IF e.topic = 0 THEN PutResult(bt, "errTopicEmpty", seq)
  ELSE IF e.payload = 0 THEN PutResult(bt, "errValueEmpty", seq)
  ELSE IF fault = "parseTopic" THEN PutResult(bt, "errParseTopic", seq)
  ELSE IF fault = "setEntry" THEN PutResult(bt, "errSetEntry", seq)
  ELSE
    LET s  == seq + 1
        b1 == [bt EXCEPT !.topics = @ \cup {e.topic}]       \* b.topics[hash] = t
        b2 == [b1 EXCEPT !.buffer = @ \o Scratch]           \* buffer.Write(scratch)
        b3 == [b2 EXCEPT !.buffer = Append(@, Packed(s, e.topic, FALSE)),
                         !.index = Append(@, BatchIndex(FALSE, e.topic, bt.size)),
                         !.size = @ + FrameLen,
                         !.entryCount = @ + 1]
    IN IF fault = "packEntry" THEN PutResult(b1, "errPackEntry", s)
       ELSE IF fault = "writeLen" THEN PutResult(b1, "errBufferWrite", s)
       ELSE IF fault = "writeData" THEN PutResult(b2, "errBufferWrite", s)
       ELSE PutResult(b3, "nil", s)

\* The key of a tombstone is topic.GetHashCode(), the key of a put is
\* hash.WithSalt(e.val, topic.GetHashCode()): the two differ.
DeleteKey(topic) == MaxWrTopic + topic

\* Batch.DeleteEntry.  The entry's seq is the one of its ID; the key is the
\* topic's hash code.
deleteEntry(bt, e, seq, fault) ==
  IF e.id = 0 THEN PutResult(bt, "errMsgIDEmpty", seq)
  ELSE IF e.topic = 0 THEN PutResult(bt, "errTopicEmpty", seq)
  ELSE IF fault = "parseTopic" THEN PutResult(bt, "errParseTopic", seq)
  ELSE IF fault = "packEntry" THEN PutResult(bt, "errPackEntry", seq)
  ELSE
    LET b2 == [bt EXCEPT !.buffer = @ \o Scratch]
        b3 == [b2 EXCEPT !.buffer = Append(@, Packed(e.id, e.topic, TRUE)),
                         !.index = Append(@, BatchIndex(TRUE, DeleteKey(e.topic), bt.size)),
                         !.size = @ + FrameLen,
                         !.entryCount = @ + 1]
    IN IF fault = "writeLen" THEN PutResult(bt, "errBufferWrite", seq)
       ELSE IF fault = "writeData" THEN PutResult(b2, "errBufferWrite", seq)
       ELSE PutResult(b3, "nil", seq)

\* The bitwise exclusive or of two numbers of n bits.
RECURSIVE xor(_, _, _)
xor(a, b, n) ==
  IF n = 0 THEN 0
  ELSE (((a % 2) + (b % 2)) % 2) + 2 * xor(a \div 2, b \div 2, n - 1)

\* memseq := b.db.cacheID ^ seq
memseq(cacheID, seq) == xor(cacheID, seq, SeqBits)

\* The sequence numbers setEntry gives out.
MaxWrSeq == 2 ^ SeqBits - 1

\* The calls inside Write's pipeline that can return an error, and the
\* pending entry at which they do.
WriteFaults ==
  {[kind |-> "none", at |-> 0]}
    \cup [kind : {"memSet", "window"}, at : 1..MaxWrCalls]

WriteResult(db, err) == [db |-> db, err |-> err]

\* The loop of writeInternal over pendingWrites together with the callback
\* Write passes to it.  The entry is read from the buffer at the offset its
\* batchIndex holds: 4 bytes of length, then the packed entry.  Bytes that are
\* not a packed entry decode to seq 0 and topic hash 0.
RECURSIVE writeLoop(_, _, _, _, _, _, _)
writeLoop(bt, b, i, db, cacheID, fault, filterHas) ==
  IF i > Len(bt.pendingWrites) THEN WriteResult(db, "nil")
  ELSE
    LET ix  == bt.pendingWrites[i]
        e   == bt.buffer[ix.offset + ScratchLen + 1]
        db1 == [db EXCEPT !.mem = @ \cup {[b |-> b, seq |-> e.seq,
                                           memseq |-> memseq(cacheID, e.seq)]}]
        db2 == [db1 EXCEPT !.trie = @ \cup {e.topic}]
        db3 == [db2 EXCEPT !.window = @ \cup {e.seq}]
    IN IF ix.delFlag /\ e.seq # 0
         THEN IF ~filterHas
                THEN WriteResult(db, "nil")                 \* return nil
                ELSE writeLoop(bt, b, i + 1,
                               [db EXCEPT !.deleted = @ \cup {e.seq}],
                               cacheID, fault, filterHas)   \* db.delete; continue
       ELSE IF fault.kind = "memSet" /\ fault.at = i
         THEN WriteResult(db, "errMemSet")
       ELSE IF e.topic \notin bt.topics
         THEN WriteResult(db1, "errTopicEmpty")
       ELSE IF fault.kind = "window" /\ fault.at = i
         THEN WriteResult(db2, "errWindowAdd")
       ELSE writeLoop(bt, b, i + 1, db3, cacheID, fault, filterHas)

\* Batch.writeInternal
writeInternal(bt, b, db, cacheID, fault, filterHas) ==
  IF db.closed THEN WriteResult(db, "errClosed")            \* b.db.ok()
  ELSE writeLoop(bt, b, 1, db, cacheID, fault, filterHas)

\* A release that is skipped when Write returns an error.
releaseOnSuccess(tokens, err) == IF err = "nil" THEN tokens - 1 ELSE tokens

\* The deferred <-b.db.writeLockC of Write: it runs whatever Write returns.
release(tokens, err) == tokens - 1

\* Batch.Reset, then bufPool.Put(b.buffer), which resets the buffer, and
\* b.db = nil.
batchAbort(bt) ==
  [bt EXCEPT !.entryCount = 0, !.size = 0, !.index = <<>>,
             !.pendingWrites = <<>>, !.buffer = <<>>, !.db = FALSE]

\* The batches whose goroutine is between taking the write-lock token and
\* giving it back.
InWrite == { b \in Batches : wrPc[b] # "idle" }

WriteInit ==
  /\ wrBatch \in [Batches -> {NewBatch(g) : g \in BOOLEAN}]
  /\ wrPc = [b \in Batches |-> "idle"]
  /\ wrErr = [b \in Batches |-> "nil"]
  /\ wrLock = 0
  /\ wrQueue = <<>>
  /\ wrSeq = 0
  /\ wrCacheID \in 0..MaxWrSeq
  /\ wrDb = EmptyDb
  /\ wrComplete = [b \in Batches |-> FALSE]
  /\ wrWrote = [b \in Batches |-> "none"]
  /\ wrAfter = [b \in Batches |-> {}]
  /\ wrCommit = [b \in Batches |-> NoCall]
  /\ wrLast = NoCall
  /\ wrProcs = Batches
  /\ wrFaults = {"none"}
  /\ BatchIdle
  /\ WalIdle
  /\ IndexIdle
  /\ SyncIdle
  /\ ExpireIdle
  /\ TrieIdle
  /\ OpenIdle

\* The batch's goroutine may call PutEntry or DeleteEntry: it is not inside
\* Write, the batch was neither written nor aborted.
MayPut(b, e, fault) ==
  /\ fault \in wrFaults
  /\ "invalid" \in wrFaults \/ e \in ValidInputs
  /\ wrPc[b] = "idle"
  /\ wrBatch[b].db
  /\ wrWrote[b] = "none"
  /\ wrBatch[b].calls < MaxWrCalls

Called(b, op, e, fault, r) ==
  /\ wrBatch' = [wrBatch EXCEPT ![b] = [r.bt EXCEPT !.calls = @ + 1]]
  /\ wrSeq' = r.seq
  /\ wrLast' = [op |-> op, b |-> b, valid |-> e \in ValidInputs, err |-> r.err,
                before |-> BatchState(wrBatch[b]), after |-> BatchState(r.bt)]
  /\ UNCHANGED <<wrPc, wrErr, wrLock, wrQueue, wrCacheID, wrDb, wrComplete,
                 wrWrote, wrAfter, wrCommit, wrProcs, wrFaults>>
  /\ UNCHANGED notWrite

WrPutEntry(b, e, fault) ==
  /\ MayPut(b, e, fault)
  /\ wrSeq < MaxWrSeq
  /\ Called(b, "PutEntry", e, fault, putEntry(wrBatch[b], e, wrSeq, fault))

WrDeleteEntry(b, e, fault) ==
  /\ MayPut(b, e, fault)
  /\ Called(b, "DeleteEntry", e, fault, deleteEntry(wrBatch[b], e, wrSeq, fault))

\* b.db.writeLockC <- struct{}{}: blocks while the channel is full.
WriteAcquire(b) ==
  /\ wrPc[b] = "idle"
  /\ wrBatch[b].db
  /\ wrWrote[b] = "none"
  /\ wrLock < WriteLockCap
  /\ wrLock' = wrLock + 1
  /\ wrPc' = [wrPc EXCEPT ![b] = "uniq"]
  /\ wrAfter' = [wrAfter EXCEPT ![b] = { a \in wrProcs : wrWrote[a] # "none" }
                                         \cup (IF wrDb.closed THEN {0} ELSE {})]
  /\ UNCHANGED <<wrBatch, wrErr, wrQueue, wrSeq, wrCacheID, wrDb, wrComplete,
                 wrWrote, wrCommit, wrProcs, wrFaults>>
  /\ wrLast' = NoCall
  /\ UNCHANGED notWrite

\* b.uniq()
WriteUniq(b) ==
  /\ wrPc[b] = "uniq"
  /\ wrBatch' = [wrBatch EXCEPT ![b].pendingWrites = uniq(wrBatch[b].index, FALSE)]
  /\ wrPc' = [wrPc EXCEPT ![b] = IF wrBatch[b].grouped THEN "queue" ELSE "write"]
  /\ UNCHANGED <<wrErr, wrLock, wrQueue, wrSeq, wrCacheID, wrDb, wrComplete,
                 wrWrote, wrAfter, wrCommit, wrProcs, wrFaults>>
  /\ wrLast' = NoCall
  /\ UNCHANGED notWrite

\* b.db.batchQueue <- b; return nil
WriteQueue(b) ==
  /\ wrPc[b] = "queue"
  /\ wrQueue' = Append(wrQueue, b)
  /\ wrErr' = [wrErr EXCEPT ![b] = "nil"]
  /\ wrPc' = [wrPc EXCEPT ![b] = "return"]
  /\ UNCHANGED <<wrBatch, wrLock, wrSeq, wrCacheID, wrDb, wrComplete, wrWrote,
                 wrAfter, wrCommit, wrProcs, wrFaults>>
  /\ wrLast' = NoCall
  /\ UNCHANGED notWrite

\* err := b.writeInternal(...)
WritePipeline(b, fault, filterHas) ==
  /\ wrPc[b] = "write"
  /\ LET r == writeInternal(wrBatch[b], b, wrDb, wrCacheID, fault, filterHas)
     IN /\ wrDb' = r.db
        /\ wrErr' = [wrErr EXCEPT ![b] = r.err]
  /\ wrPc' = [wrPc EXCEPT ![b] = "return"]
  /\ UNCHANGED <<wrBatch, wrLock, wrQueue, wrSeq, wrCacheID, wrComplete, wrWrote,
                 wrAfter, wrCommit, wrProcs, wrFaults>>
  /\ wrLast' = NoCall
  /\ UNCHANGED notWrite

\* The return of Write and its deferred function.
WriteReturn(b) ==
  /\ wrPc[b] = "return"
  /\ wrLock' = release(wrLock, wrErr[b])
  /\ wrWrote' = [wrWrote EXCEPT ![b] = wrErr[b]]
  /\ wrPc' = [wrPc EXCEPT ![b] = "idle"]
  /\ UNCHANGED <<wrBatch, wrErr, wrQueue, wrSeq, wrCacheID, wrDb, wrComplete,
                 wrAfter, wrCommit, wrProcs, wrFaults>>
  /\ wrLast' = NoCall
  /\ UNCHANGED notWrite

\* Batch.Commit on an unmanaged batch.  fails says whether db.commit returns
\* an error; the error is logged.
Commit(b, fails) ==
  /\ wrPc[b] = "idle"
  /\ wrBatch[b].db
  /\ wrCommit[b] = NoCall
  /\ LET bt    == wrBatch[b]
         empty == Len(bt.pendingWrites) = 0 \/ Len(bt.buffer) = 0
     IN IF empty
          THEN /\ wrBatch' = [wrBatch EXCEPT ![b] = batchAbort(bt)]
               /\ wrCommit' = [wrCommit EXCEPT ![b] =
                    [op |-> "Commit", pending |-> FALSE, failed |-> FALSE,
                     err |-> "nil"]]
               /\ UNCHANGED <<wrDb, wrComplete, wrProcs, wrFaults>>
          ELSE /\ wrDb' = IF fails THEN wrDb
                          ELSE [wrDb EXCEPT !.log =
                                  Append(@, [b |-> b, n |-> Len(bt.pendingWrites)])]
               /\ wrComplete' = [wrComplete EXCEPT ![b] = TRUE]
               /\ wrCommit' = [wrCommit EXCEPT ![b] =
                    [op |-> "Commit", pending |-> TRUE, failed |-> fails,
                     err |-> "nil"]]
               /\ UNCHANGED wrBatch
  /\ UNCHANGED <<wrPc, wrErr, wrLock, wrQueue, wrSeq, wrCacheID, wrWrote,
                 wrAfter, wrProcs, wrFaults>>
  /\ wrLast' = NoCall
  /\ UNCHANGED notWrite

\* The DB is closed: from now on DB.ok returns the closed error.
DbClose ==
  /\ ~wrDb.closed
  /\ wrDb' = [wrDb EXCEPT !.closed = TRUE]
  /\ UNCHANGED <<wrBatch, wrPc, wrErr, wrLock, wrQueue, wrSeq, wrCacheID,
                 wrComplete, wrWrote, wrAfter, wrCommit, wrLast, wrProcs, wrFaults>>
  /\ UNCHANGED notWrite

WritePut == \E b \in wrProcs, e \in PutInputs, f \in PutFaults : WrPutEntry(b, e, f)
WriteDelete == \E b \in wrProcs, e \in DeleteInputs, f \in DeleteFaults : WrDeleteEntry(b, e, f)
WriteLock == \E b \in wrProcs : WriteAcquire(b)
WriteDedup == \E b \in wrProcs : WriteUniq(b)
WriteGrouped == \E b \in wrProcs : WriteQueue(b)
WriteEntries == \E b \in wrProcs, f \in WriteFaults, h \in BOOLEAN : WritePipeline(b, f, h)
WriteUnlock == \E b \in wrProcs : WriteReturn(b)
WriteCommitted == \E b \in wrProcs, f \in BOOLEAN : Commit(b, f)

WriteNext ==
  \/ WritePut
  \/ WriteDelete
  \/ WriteLock
  \/ WriteDedup
  \/ WriteGrouped
  \/ WriteEntries
  \/ WriteUnlock
  \/ WriteCommitted
  \/ DbClose

SpecWrite == WriteInit /\ [][WriteNext]_vars

\* One batch whose PutEntry and DeleteEntry calls are given every argument,
\* valid or not, and every failure of the calls they make.
PutInit ==
  /\ wrBatch \in [Batches -> {NewBatch(g) : g \in BOOLEAN}]
  /\ wrPc = [b \in Batches |-> "idle"]
  /\ wrErr = [b \in Batches |-> "nil"]
  /\ wrLock = 0
  /\ wrQueue = <<>>
  /\ wrSeq = 0
  /\ wrCacheID = 0
  /\ wrDb = EmptyDb
  /\ wrComplete = [b \in Batches |-> FALSE]
  /\ wrWrote = [b \in Batches |-> "none"]
  /\ wrAfter = [b \in Batches |-> {}]
  /\ wrCommit = [b \in Batches |-> NoCall]
  /\ wrLast = NoCall
  /\ wrProcs = {1}
  /\ wrFaults = PutFaults \cup {"invalid"}
  /\ BatchIdle
  /\ WalIdle
  /\ IndexIdle
  /\ SyncIdle
  /\ ExpireIdle
  /\ TrieIdle
  /\ OpenIdle

SpecPut == PutInit /\ [][WriteNext]_vars

\* Batch.Reset: the counters and the two index slices are cleared; the
\* buffer keeps its bytes (b.buffer.Reset() is commented out).
batchReset(bt) ==
  [bt EXCEPT !.entryCount = 0, !.size = 0, !.index = <<>>, !.pendingWrites = <<>>]

\* The offset of every index entry of ix raised by off.
shiftIndex(ix, off) ==
  [i \in 1..Len(ix) |-> BatchIndex(ix[i].delFlag, ix[i].key, ix[i].offset + off)]

\* Batch.append: nothing for a batch with no pending writes; else the index
\* entries of new are added with their offsets raised by b.size, and the
\* bytes of new's buffer are written behind the bytes of b's buffer.
batchAppend(bt, new) ==
  IF Len(new.pendingWrites) = 0 THEN bt
  ELSE [bt EXCEPT !.index = @ \o shiftIndex(new.index, bt.size),
                  !.size = @ + new.size,
                  !.buffer = @ \o new.buffer]

\* Bound: the number of frames a buffer holds after an append.
MaxFrames == 3

\* Batches whose PutEntry and DeleteEntry calls get valid arguments and meet
\* no failure.
FrameInit ==
  /\ wrBatch = [b \in Batches |-> NewBatch(TRUE)]
  /\ wrPc = [b \in Batches |-> "idle"]
  /\ wrErr = [b \in Batches |-> "nil"]
  /\ wrLock = 0
  /\ wrQueue = <<>>
  /\ wrSeq = 0
  /\ wrCacheID = 0
  /\ wrDb = EmptyDb
  /\ wrComplete = [b \in Batches |-> FALSE]
  /\ wrWrote = [b \in Batches |-> "none"]
  /\ wrAfter = [b \in Batches |-> {}]
  /\ wrCommit = [b \in Batches |-> NoCall]
  /\ wrLast = NoCall
  /\ wrProcs = Batches
  /\ wrFaults = {"none"}
  /\ BatchIdle
  /\ WalIdle
  /\ IndexIdle
  /\ SyncIdle
  /\ ExpireIdle
  /\ TrieIdle
  /\ OpenIdle

\* A call on the batch b that changes only the batch.
FrameCalled(b, op, bt) ==
  /\ wrBatch' = [wrBatch EXCEPT ![b] = bt]
  /\ wrLast' = [op |-> op, b |-> b, err |-> "nil"]
  /\ UNCHANGED <<wrPc, wrErr, wrLock, wrQueue, wrSeq, wrCacheID, wrDb, wrComplete,
                 wrWrote, wrAfter, wrCommit, wrProcs, wrFaults>>
  /\ UNCHANGED notWrite

\* b.uniq(), as Write runs it before it hands a grouped batch on.
FrameUniq(b) ==
  FrameCalled(b, "uniq", [wrBatch[b] EXCEPT !.pendingWrites = uniq(wrBatch[b].index, FALSE)])

\* b.Reset()
FrameReset(b) == FrameCalled(b, "Reset", batchReset(wrBatch[b]))

\* b.append(new)
FrameAppend(b, new) ==
  /\ b # new
  /\ Len(wrBatch[b].buffer) + Len(wrBatch[new].buffer) <= MaxFrames * FrameLen
  /\ FrameCalled(b, "append", batchAppend(wrBatch[b], wrBatch[new]))

FrameDedup == \E b \in wrProcs : FrameUniq(b)
FrameCleared == \E b \in wrProcs : FrameReset(b)
FrameJoined == \E b \in wrProcs, new \in wrProcs : FrameAppend(b, new)

FrameNext ==
  \/ WritePut
  \/ WriteDelete
  \/ FrameDedup
  \/ FrameCleared
  \/ FrameJoined

SpecFrame == FrameInit /\ [][FrameNext]_vars

\* The bytes of bt's buffer at the offset off are a length prefix followed
\* by a packed entry.
FrameStartsAt(bt, off) ==
  /\ off + FrameLen <= Len(bt.buffer)
  /\ \A k \in 1..ScratchLen : bt.buffer[off + k] = LenByte
  /\ bt.buffer[off + FrameLen].kind = "entry"

\* The frame at the offset of the index entry ix is the one of a put or of a
\* tombstone, as ix says, on the topic of ix's key.
FrameOfIndex(bt, ix) ==
  /\ FrameStartsAt(bt, ix.offset)
  /\ bt.buffer[ix.offset + FrameLen].del = ix.delFlag
  /\ ix.key = IF ix.delFlag THEN DeleteKey(bt.buffer[ix.offset + FrameLen].topic)
                            ELSE bt.buffer[ix.offset + FrameLen].topic

\* The PutEntry that returned last has its own frame at the offset of the
\* index entry it added: the frame holds the seq it gave to the entry.
LastPutDecodesItsFrame ==
  IF wrLast.op = "PutEntry"
    THEN LET bt == wrBatch[wrLast.b]
             ix == bt.index[Len(bt.index)]
         IN FrameStartsAt(bt, ix.offset) /\ bt.buffer[ix.offset + FrameLen].seq = wrSeq
    ELSE TRUE

\* C40 (helper, holds): every index entry's offset is the start of some
\* frame of the buffer, and b.size is not higher than the buffer's length.
OffsetsAreFrameStarts ==
  \A b \in Batches :
    /\ wrBatch[b].size <= Len(wrBatch[b].buffer)
    /\ \A i \in 1..Len(wrBatch[b].index) :
         FrameStartsAt(wrBatch[b], wrBatch[b].index[i].offset)

\* C40 (helper, violated): a PutEntry that follows a Reset decodes its own
\* frame.
PutAfterResetDecodesItsFrame == LastPutDecodesItsFrame

\* C40 (as stated, violated): every index entry's offset is the start of
\* the frame written for that entry, and b.size is the number of bytes in
\* the buffer.
BatchFramesConsistent ==
  /\ \A b \in Batches :
       /\ wrBatch[b].size = Len(wrBatch[b].buffer)
       /\ \A i \in 1..Len(wrBatch[b].index) :
            FrameOfIndex(wrBatch[b], wrBatch[b].index[i])
  /\ LastPutDecodesItsFrame

\* C16: at most one batch is between taking the write-lock token and giving
\* it back, and the channel holds a token exactly while a batch is there:
\* every Write that returned, with or without an error, has taken its token
\* out, so the channel is empty for the next Write.
WriteLockHeldOnlyInsideWrite ==
  /\ Cardinality(InWrite) <= 1
  /\ wrLock = Cardinality(InWrite)

\* A Write returned an error, and after it another batch has taken the token.
WriteAfterFailedWrite ==
  \E a, b \in wrProcs :
     /\ wrWrote[a] \notin {"none", "nil"}
     /\ wrPc[b] = "write"
     /\ a \in wrAfter[b]

\* The memtable entries a batch's Write set.
memOf(b) == { m \in wrDb.mem : m.b = b }

\* C17: when the Write of batch a returned before the Write of batch b
\* started, every memseq set by a is strictly lower than every memseq set
\* by b.
WriteOrderIsMemseqOrder ==
  \A a, b \in Batches :
     (a \in wrAfter[b] /\ wrWrote[a] = "nil" /\ wrWrote[b] = "nil") =>
        \A x \in memOf(a), y \in memOf(b) : x.memseq < y.memseq

\* C18: every Commit that returned has closed the batch's commitComplete
\* channel, whether the batch had pending writes or none.
CommitSignalsCompletion ==
  \A b \in Batches : wrCommit[b] # NoCall => wrComplete[b]

\* Every Commit of a batch with pending writes and a buffer that is not
\* empty has closed commitComplete when it returns.
CommitOfPendingSignalsCompletion ==
  \A b \in Batches :
     (wrCommit[b] # NoCall /\ wrCommit[b].pending) => wrComplete[b]

\* C19: a Commit during which db.commit failed returns an error.
CommitFailureIsReturned ==
  \A b \in Batches :
     (wrCommit[b] # NoCall /\ wrCommit[b].failed) => wrCommit[b].err # "nil"

\* C20: a PutEntry or DeleteEntry call that returned an error left the
\* batch's index, buffer, size, entryCount and topics as they were.
FailedCallLeavesBatch ==
  (wrLast # NoCall /\ wrLast.err # "nil") => wrLast.after = wrLast.before

\* A call that was given an empty topic, payload or ID left the batch as it
\* was.
RejectedCallLeavesBatch ==
  (wrLast # NoCall /\ ~wrLast.valid) =>
     /\ wrLast.err # "nil"
     /\ wrLast.after = wrLast.before

\* The batches whose Write started when the DB was closed and has returned.
WroteWhenClosed == { b \in Batches : 0 \in wrAfter[b] /\ wrWrote[b] # "none" }

\* C21: a Write on a closed DB returns the closed error, sets nothing in the
\* memtable and does not push the batch onto the batch-group queue.
WriteOnClosedChangesNothing ==
  \A b \in WroteWhenClosed :
     /\ wrWrote[b] = "errClosed"
     /\ memOf(b) = {}
     /\ \A i \in 1..Len(wrQueue) : wrQueue[i] # b

\* The Write of a batch that is not grouped returns the closed error on a
\* closed DB and sets nothing in the memtable.
UngroupedWriteOnClosed ==
  \A b \in WroteWhenClosed :
     ~wrBatch[b].grouped => (wrWrote[b] = "errClosed" /\ memOf(b) = {})

(***************************************************************************)
(*                        OPEN AND CLOSE                                   *)
(***************************************************************************)

\* Bound: the number of Open calls that returned an error.
MaxFailedOpens == 2

\* Bound: the number of Close calls on one DB object.
MaxCloses == 2

\* The calls inside Open that can return an error.
OpenFaults == {"none", "lock", "index", "data", "filter", "mac", "initbatchdb",
               "seed", "extendIndex", "extendData", "writeHeader", "readHeader",
               "freelist", "recover"}

\* What a caller and the environment give to Open: the failing call, whether
\* the lock file says the last shutdown was unclean, and the options
\* BackgroundSyncInterval > 0 and BackgroundKeyExpiry.
OpenInputs == [fault : OpenFaults, recovery : BOOLEAN, sync : BOOLEAN,
               expiry : BOOLEAN]

\* The calls inside Close that can return an error.
CloseFaults == {"none", "writeHeader", "dataClose", "indexClose", "unlock",
                "filterClose"}

OpenResult(db, disk, err, read) == [db |-> db, disk |-> disk, err |-> err, read |-> read]

\* The DB object of a successful Open.  db.cancelSyncer is assigned by
\* startSyncer and again by startExpirer; the second half of src/db.go has no
\* expirer, the loops of src/db_sync.go take no cancel function.
NewDb(ver, o, info, freelist) ==
  [state |-> "open",
   files |-> [index |-> "open", data |-> "open", filter |-> "open"],
   dbInfo |-> info,
   freelist |-> freelist,
   cancel |-> IF ver = 3 THEN "nil"
              ELSE IF o.expiry /\ ver = 1 THEN "expirer"
              ELSE IF o.sync THEN "syncer"
              ELSE "nil",
   cancelled |-> {},
   closeC |-> "open",
   headers |-> 0,
   closes |-> 0,
   done |-> FALSE]

\* The goroutines Open starts.
Started(ver, o) ==
  [g \in Goroutines |->
     IF g = "syncer" THEN (IF o.sync THEN "select" ELSE "none")
     ELSE (IF o.expiry /\ ver # 2 THEN "select" ELSE "none")]

\* Open.  disk.leaked are the files a failed Open left open; the error paths
\* that close index and data and unlock the lock file are the two after
\* the test of index.size.
open(ver, disk, o) ==
  IF disk.lock = "held" THEN OpenResult(NoDb, disk, "errLocked", "none")
  ELSE IF o.fault = "lock" THEN OpenResult(NoDb, disk, "errIO", "none")
  ELSE
    LET d1 == [disk EXCEPT !.lock = "held"]
        d2 == [d1 EXCEPT !.leaked = @ \cup {"index", "data", "filter"}]
        released == [disk EXCEPT !.leaked = @ \cup {"filter"}]
        done(info, fl, d, read) ==
          IF o.recovery /\ o.fault = "recover"
            THEN OpenResult(NoDb, d, "errIO", read)
            ELSE OpenResult(NewDb(ver, o, info, fl), d, "nil", read)
    IN IF o.fault = "index" THEN OpenResult(NoDb, d1, "errIO", "none")
       ELSE IF o.fault = "data"
         THEN OpenResult(NoDb, [d1 EXCEPT !.leaked = @ \cup {"index"}], "errIO", "none")
       ELSE IF o.fault = "filter"
         THEN OpenResult(NoDb, [d1 EXCEPT !.leaked = @ \cup {"index", "data"}], "errIO", "none")
       ELSE IF (o.fault = "mac" /\ ver # 2) \/ o.fault = "initbatchdb"
         THEN OpenResult(NoDb, d2, "errIO", "none")
       ELSE IF disk.index = "empty"
         THEN IF disk.data = "full"
                THEN OpenResult(NoDb, released, "errCorrupted", "none")
              ELSE IF o.fault \in {"seed", "extendIndex"}
                THEN OpenResult(NoDb, d2, "errIO", "none")
              ELSE IF o.fault = "extendData"
                THEN OpenResult(NoDb, [d2 EXCEPT !.index = "bad"], "errIO", "none")
              ELSE IF o.fault = "writeHeader"
                THEN OpenResult(NoDb, [d2 EXCEPT !.index = "bad", !.data = "full"],
                                "errIO", "none")
              ELSE done("new", FALSE, [d1 EXCEPT !.index = "good", !.data = "full"],
                        "none")
       ELSE IF o.fault = "readHeader"
         THEN OpenResult(NoDb, released, "errIO", "none")
       ELSE IF ver = 2 /\ disk.index = "bad"
         THEN OpenResult(NoDb, released, "errCorrupted", disk.index)
       ELSE IF ~o.recovery /\ o.fault = "freelist"
         THEN OpenResult(NoDb, released, "errIO", disk.index)
       ELSE done(disk.index, ~o.recovery, d1, disk.index)

CloseResult(db, disk, err) == [db |-> db, disk |-> disk, err |-> err]

\* The run of Close up to its return.  strict says whether the file system
\* returns an error for a write to, or a close of, a file that is closed.
close(db, disk, fault, strict) ==
  LET db0 == [db EXCEPT !.cancelled = IF db.cancel = "nil" THEN @ ELSE @ \cup {db.cancel},
                        !.closes = @ + 1]
      db1 == [db0 EXCEPT !.headers = @ + 1]
      db2 == [db1 EXCEPT !.files.data = "closed"]
      db3 == [db2 EXCEPT !.files.index = "closed"]
      db4 == [db3 EXCEPT !.files.filter = "closed"]
      d1  == [disk EXCEPT !.index = "good"]
      d2  == [d1 EXCEPT !.lock = "free"]
  IN IF fault = "writeHeader"
          \/ (strict /\ db.files.index = "closed")
       THEN CloseResult(db0, disk, "errIO")
     ELSE IF fault = "dataClose" \/ (strict /\ db.files.data = "closed")
       THEN CloseResult(db1, d1, "errIO")
     ELSE IF fault = "indexClose" \/ (strict /\ db.files.index = "closed")
       THEN CloseResult(db2, d1, "errIO")
     ELSE IF fault = "unlock"
       THEN CloseResult(db3, d1, "errIO")
     ELSE IF fault = "filterClose" \/ (strict /\ db.files.filter = "closed")
       THEN CloseResult(db3, d2, "errIO")
     ELSE IF db.closeC = "closed"
       THEN CloseResult(db4, d2, "panic")                   \* close of a closed channel
     ELSE CloseResult([db4 EXCEPT !.closeC = "closed", !.done = TRUE], d2, "nil")

\* A header signature is good or bad; a path either has no index file, or
\* one with a header.
LifeInit ==
  /\ lcVer \in 1..3
  /\ lcDisk \in [index : {"empty", "good", "bad"}, data : {"empty", "full"},
                 lock : {"free"}, leaked : {{}}]
  /\ lcDb = NoDb
  /\ lcBg = [g \in Goroutines |-> "none"]
  /\ lcLate = {}
  /\ lcOpened = NoCall
  /\ lcClosed = NoCall
  /\ hdIn = NoHeader
  /\ hdBuf = <<>>
  /\ hdOut = NoHeader
  /\ hdBuf2 = <<>>
  /\ abLast = NoCall
  /\ PoolIdle
  /\ LogIdle
  /\ OldExpIdle
  /\ BatchIdle
  /\ WalIdle
  /\ IndexIdle
  /\ SyncIdle
  /\ ExpireIdle
  /\ TrieIdle
  /\ WriteIdle

hdVars == <<hdIn, hdBuf, hdOut, hdBuf2>>

\* Open(path, opts)
Open(o) ==
  /\ lcDb = NoDb
  /\ IF lcOpened = NoCall THEN TRUE ELSE lcOpened.failed < MaxFailedOpens
  /\ LET r == open(lcVer, lcDisk, o)
     IN /\ lcDb' = r.db
        /\ lcDisk' = r.disk
        /\ lcBg' = IF r.err = "nil" THEN Started(lcVer, o) ELSE lcBg
        /\ lcOpened' = [op |-> "Open", err |-> r.err, read |-> r.read, db |-> r.db,
                        lock |-> r.disk.lock, leaked |-> r.disk.leaked,
                        before |-> lcDisk,
                        failed |-> (IF lcOpened = NoCall THEN 0 ELSE lcOpened.failed)
                                     + (IF r.err = "nil" THEN 0 ELSE 1)]
  /\ UNCHANGED <<lcVer, lcLate, lcClosed, hdVars, abLast, poolVars, logVars, oldExpVars>>
  /\ UNCHANGED notOpen

\* DB.Close: it holds db.mu from its first to its last statement.
Close(fault, strict) ==
  /\ lcDb # NoDb
  /\ lcDb.closes < MaxCloses
  /\ LET r == close(lcDb, lcDisk, fault, strict)
     IN /\ lcDb' = r.db
        /\ lcDisk' = r.disk
        /\ lcClosed' = [op |-> "Close", err |-> r.err, before |-> lcDb,
                        after |-> r.db]
  /\ UNCHANGED <<lcVer, lcBg, lcLate, lcOpened, hdVars, abLast, poolVars, logVars, oldExpVars>>
  /\ UNCHANGED notOpen

\* The goroutine's select finds its context cancelled (src/db.go) or closeC
\* closed (src/db_sync.go) and returns.
BgExit(g) ==
  /\ lcDb # NoDb
  /\ lcBg[g] = "select"
  /\ IF lcVer = 3 THEN lcDb.closeC = "closed" ELSE g \in lcDb.cancelled
  /\ lcBg' = [lcBg EXCEPT ![g] = "exited"]
  /\ UNCHANGED <<lcVer, lcDisk, lcDb, lcLate, lcOpened, lcClosed, hdVars, abLast, poolVars, logVars, oldExpVars>>
  /\ UNCHANGED notOpen

\* The goroutine's select takes the other branch: default when the context
\* is not cancelled (src/db.go), a tick of the ticker (src/db_sync.go, also
\* when closeC is closed: select picks among the ready cases).
BgSelect(g) ==
  /\ lcDb # NoDb
  /\ lcBg[g] = "select"
  /\ lcVer = 3 \/ g \notin lcDb.cancelled
  /\ lcBg' = [lcBg EXCEPT ![g] = "work"]
  /\ UNCHANGED <<lcVer, lcDisk, lcDb, lcLate, lcOpened, lcClosed, hdVars, abLast, poolVars, logVars, oldExpVars>>
  /\ UNCHANGED notOpen

\* The body of the loop: db.Sync() or the expiry, then the sleep.  uses says
\* whether the body gets as far as the files (there were modifications to
\* sync, or entries to expire).
BgWork(g, uses) ==
  /\ lcDb # NoDb
  /\ lcBg[g] = "work"
  /\ lcBg' = [lcBg EXCEPT ![g] = "select"]
  /\ lcLate' = IF uses /\ (lcDb.files.index = "closed" \/ lcDb.files.data = "closed")
                 THEN lcLate \cup {g} ELSE lcLate
  /\ UNCHANGED <<lcVer, lcDisk, lcDb, lcOpened, lcClosed, hdVars, abLast, poolVars, logVars, oldExpVars>>
  /\ UNCHANGED notOpen

LifeOpen == \E o \in OpenInputs : Open(o)
LifeClose == \E f \in CloseFaults, strict \in BOOLEAN : Close(f, strict)
LifeBgExit == \E g \in Goroutines : BgExit(g)
LifeBgSelect == \E g \in Goroutines : BgSelect(g)
LifeBgWork == \E g \in Goroutines, uses \in BOOLEAN : BgWork(g, uses)

LifeNext == LifeOpen \/ LifeClose \/ LifeBgExit \/ LifeBgSelect \/ LifeBgWork

SpecLife == LifeInit /\ [][LifeNext]_vars

\* A goroutine that is scheduled again and again goes on; a select that
\* finds its context cancelled or closeC closed again and again returns.
SpecLifeFair ==
  /\ SpecLife
  /\ \A g \in Goroutines :
       /\ SF_vars(BgExit(g))
       /\ WF_vars(BgSelect(g))
       /\ WF_vars(\E uses \in BOOLEAN : BgWork(g, uses))


(***************************************************************************)
(*                 THE INDEX HEADER: MarshalBinary, UnmarshalBinary        *)
(***************************************************************************)

\* Bound: the number of bits of a byte.  The widths of the fields are counted
\* in bytes as in the source: 4 bytes for a uint32, 8 for an int64.
ByteBits == 2

ByteBase == 2 ^ ByteBits

\* align512(binary.Size(header{})): 7 + 4 + 25 + 256 bytes, rounded up.
headerSize == 512

U32 == ByteBase ^ 4

U64 == ByteBase ^ 8

\* 't', 'r', 'a', 'c', 'e', 'd', 'b', each reduced to the width of a byte.
signature == [i \in 1..7 |-> <<116, 114, 97, 99, 101, 100, 98>>[i] % ByteBase]

\* copy(dst, src): as many elements as the shorter of the two has.
copy(dst, src) == [i \in 1..Len(dst) |-> IF i <= Len(src) THEN src[i] ELSE dst[i]]

Zeros(n) == [i \in 1..n |-> 0]

\* binary.LittleEndian.PutUint32 and PutUint64: n bytes, least significant first.
PutUint(v, n) == [i \in 1..n |-> (v \div (ByteBase ^ (i - 1))) % ByteBase]

RECURSIVE UintBE(_)
\* Most significant byte first.
UintBE(bs) == IF bs = <<>> THEN 0 ELSE UintBE(SubSeq(bs, 1, Len(bs) - 1)) * ByteBase + bs[Len(bs)]

RECURSIVE Uint(_)
\* binary.LittleEndian.Uint32 and Uint64.
Uint(bs) == IF bs = <<>> THEN 0 ELSE bs[1] + ByteBase * Uint(Tail(bs))

\* uint64(x) of an int64.
uint64(x) == IF x < 0 THEN x + U64 ELSE x

\* int64(u) of a uint64.
int64(u) == IF u >= U64 \div 2 THEN u - U64 ELSE u

\* A value of four bytes that reads differently from either end.
Asym32 == ByteBase + 2

\* Header values at the edges of each field's width.
Headers ==
  [signature : {signature, Zeros(7), [i \in 1..7 |-> ByteBase - 1]},
   version : {0, 1, U32 - 1},
   level : {0, ByteBase - 1},
   count : {0, U32 - 1},
   nBlocks : {1, Asym32},
   splitBlockIdx : {0, ByteBase},
   freelistOff : {-1, 0, Asym32, (U64 \div 2) - 1, 0 - (U64 \div 2)},
   hashSeed : {0, Asym32 * ByteBase}]

\* header{}
ZeroHeader ==
  [signature |-> Zeros(7), version |-> 0, level |-> 0, count |-> 0, nBlocks |-> 0,
   splitBlockIdx |-> 0, freelistOff |-> 0, hashSeed |-> 0]

MarshalBinary(h) ==
  copy(Zeros(8), h.signature)
    \o PutUint(h.version, 4)
    \o <<h.level>>
    \o PutUint(h.count, 4)
    \o PutUint(h.nBlocks, 4)
    \o PutUint(h.splitBlockIdx, 4)
    \o PutUint(uint64(h.freelistOff), 8)
    \o PutUint(h.hashSeed, 4)
    \o Zeros(headerSize - 37)

\* data[a:b] of Go.
Slice(data, a, b) == SubSeq(data, a + 1, b)

UnmarshalBinary(h, data) ==
  [signature |-> copy(h.signature, Slice(data, 0, 8)),
   version |-> Uint(Slice(data, 8, 12)),
   level |-> data[13],
   count |-> Uint(Slice(data, 13, 17)),
   nBlocks |-> Uint(Slice(data, 17, 21)),
   splitBlockIdx |-> Uint(Slice(data, 21, 25)),
   freelistOff |-> int64(Uint(Slice(data, 25, 33))),
   hashSeed |-> Uint(Slice(data, 33, 37))]

HeaderInit ==
  /\ hdIn \in Headers
  /\ hdBuf = <<>>
  /\ hdOut = NoHeader
  /\ hdBuf2 = <<>>
  /\ abLast = NoCall
  /\ PoolIdle
  /\ LogIdle
  /\ OldExpIdle
  /\ lcVer = 0
  /\ lcDisk = [index |-> "empty", data |-> "empty", lock |-> "free", leaked |-> {}]
  /\ lcDb = NoDb
  /\ lcBg = [g \in Goroutines |-> "none"]
  /\ lcLate = {}
  /\ lcOpened = NoCall
  /\ lcClosed = NoCall
  /\ BatchIdle
  /\ WalIdle
  /\ IndexIdle
  /\ SyncIdle
  /\ ExpireIdle
  /\ TrieIdle
  /\ WriteIdle

lifeVars == <<lcVer, lcDisk, lcDb, lcBg, lcLate, lcOpened, lcClosed>>

\* buf, _ := h.MarshalBinary()
HdMarshal ==
  /\ hdIn # NoHeader
  /\ hdBuf = <<>>
  /\ hdBuf' = MarshalBinary(hdIn)
  /\ UNCHANGED <<hdIn, hdOut, hdBuf2, lifeVars, abLast, poolVars, logVars, oldExpVars>>
  /\ UNCHANGED notOpen

\* h2 := header{}; h2.UnmarshalBinary(buf)
HdUnmarshal ==
  /\ hdBuf # <<>>
  /\ hdOut = NoHeader
  /\ hdOut' = UnmarshalBinary(ZeroHeader, hdBuf)
  /\ UNCHANGED <<hdIn, hdBuf, hdBuf2, lifeVars, abLast, poolVars, logVars, oldExpVars>>
  /\ UNCHANGED notOpen

\* buf2, _ := h2.MarshalBinary()
HdRemarshal ==
  /\ hdOut # NoHeader
  /\ hdBuf2 = <<>>
  /\ hdBuf2' = MarshalBinary(hdOut)
  /\ UNCHANGED <<hdIn, hdBuf, hdOut, lifeVars, abLast, poolVars, logVars, oldExpVars>>
  /\ UNCHANGED notOpen

HeaderNext == HdMarshal \/ HdUnmarshal \/ HdRemarshal

SpecHeader == HeaderInit /\ [][HeaderNext]_vars

\* C22: a second DB.Close after a completed Close returns the Closed error
\* and has no effect: the header is not rewritten, the files, the lock and
\* closeC are not closed again.
SecondCloseReturnsClosed ==
  (lcClosed # NoCall /\ lcClosed.before.done) =>
    /\ lcClosed.err = "errClosed"
    /\ lcClosed.after.headers = lcClosed.before.headers
    /\ lcClosed.after.files = lcClosed.before.files
    /\ lcClosed.after.closeC = lcClosed.before.closeC

\* The first Close on an open DB returns nil with the header written once,
\* the three files closed, the lock file released and closeC closed.
FirstCloseCloses ==
  (lcClosed # NoCall /\ lcClosed.before.closes = 0 /\ lcClosed.err = "nil") =>
    /\ lcClosed.after.headers = 1
    /\ \A f \in {"index", "data", "filter"} : lcClosed.after.files[f] = "closed"
    /\ lcClosed.after.closeC = "closed"
    /\ lcClosed.after.done

\* C23: no background Sync or expiry step uses the index or data file after
\* Close has closed it.
NoFileUseAfterClose == lcLate = {}

\* C24: after a completed Close every goroutine that Open started exits.
GoroutinesExitAfterClose ==
  (lcDb # NoDb /\ lcDb.done) ~> (\A g \in Goroutines : lcBg[g] \in {"none", "exited"})

\* The goroutines exit after a completed Close unless startExpirer has
\* overwritten the cancel function that startSyncer stored.
GoroutinesExitWhenCancelKept ==
  (lcDb # NoDb /\ lcDb.done /\ ~(lcVer = 1 /\ \A g \in Goroutines : lcBg[g] # "none"))
    ~> (\A g \in Goroutines : lcBg[g] \in {"none", "exited"})

\* C25: when the signature read from the index header is not the expected
\* one, Open fails with Corrupted, dbInfo is not taken from the header and
\* the freelist is not loaded.
BadSignatureIsCorrupted ==
  (lcOpened # NoCall /\ lcOpened.read = "bad") =>
    /\ lcOpened.err = "errCorrupted"
    /\ lcOpened.db = NoDb

\* The readHeader of the second half of src/db.go checks the signature.
BadSignatureIsCorruptedV2 == lcVer = 2 => BadSignatureIsCorrupted

\* C27: an Open that returned an error has released the lock file and closed
\* the files it opened, and no Open fails with Locked because of an earlier
\* failed Open.
FailedOpenReleasesLock ==
  (lcOpened # NoCall /\ lcOpened.err # "nil") =>
    /\ lcOpened.err # "errLocked"
    /\ lcOpened.lock = "free"
    /\ lcOpened.leaked = {}

\* C26: a header unmarshalled from its marshalled form has the fields of the
\* original, and marshals to the same bytes.
HeaderRoundTrip ==
  /\ hdOut # NoHeader => hdOut = hdIn
  /\ hdBuf2 # <<>> => hdBuf2 = hdBuf

\* A header with a negative freelist offset and a hash seed whose bytes
\* differ has made the round trip.
HeaderRoundTripDone ==
  /\ hdBuf2 # <<>>
  /\ Len(hdBuf2) = headerSize
  /\ hdIn.freelistOff < 0
  /\ hdIn.hashSeed = Asym32 * ByteBase
  /\ hdIn.signature = signature

\* C28: in every reachable state of the hash index n_blocks is
\* 2^level + split_block_idx and split_block_idx is below 2^level, after
\* splits that succeeded and after splits that returned an error.
SplitCountersAgree ==
  /\ nBlocks = 2 ^ level + splitBlockIdx
  /\ 0 <= splitBlockIdx
  /\ splitBlockIdx < 2 ^ level

\* The counters agree as long as every block the index file was extended by
\* has been counted in nBlocks, that is, as long as no split has failed after
\* index.extend.
SplitCountersAgreeUntilFailure == Len(indexBlk) = nBlocks => SplitCountersAgree

\* a is the end of the file f.
IsSuffix(a, f) == Len(f) >= Len(a) /\ SubSeq(f, Len(f) - Len(a) + 1, Len(f)) = a

\* The step is one of the running process, neither a crash nor a reopening.
Running == pc # "down" /\ pc' # "down"

\* Steps of a flush, told by what they change.
WindowWriteStep == Running /\ Len(winFile') > Len(winFile)
BlockWriteStep == Running /\ indexFile' # indexFile /\ indexFile \subseteq indexFile'
FsyncStep == Running /\ <<dataDur, indexDur, winDur>>' # <<dataDur, indexDur, winDur>>

MaxAbWritten == 1

\* The calls inside abort that can return an error.
AbortFaults == {"none", "dataRollback", "blockRollback", "windowRollback", "leaseWrite"}

\* syncHandle.abort: the calls it makes after the deferred reset is set up,
\* up to its return, when the call named by fault returns an error.
abortCalls(complete, fault) ==
  IF complete THEN <<>>
  ELSE <<"data.truncate", "index.truncate", "timeWindow.truncate", "blockIdx.CAS", "decount">>
       \o (IF fault = "dataRollback" THEN <<"dataWriter.rollback">>
           ELSE IF fault = "blockRollback" THEN <<"dataWriter.rollback", "blockWriter.rollback">>
           ELSE <<"dataWriter.rollback", "blockWriter.rollback", "windowWriter.rollback">>
                  \o (IF fault = "windowRollback" THEN <<>>
                      ELSE <<"lease.defrag", "lease.write">>))

\* syncHandle.abort: whether it returns an error.
abortErr(complete, fault) == ~complete /\ fault # "none"

\* The state in which abort runs: a sync attempt has taken its offsets in
\* startSync and has written up to MaxAbWritten entries to each file; it has
\* gone through its fsync (syncComplete) or not.
AbortInit ==
  /\ syncComplete \in BOOLEAN
  /\ dataOff \in 0..1
  /\ winOff \in 0..1
  /\ blockOff \in 1..2
  /\ \E n \in 0..MaxAbWritten : dataFile = [i \in 1..(dataOff + n) |-> i]
  /\ \E n \in 0..MaxAbWritten : winFile = [i \in 1..(winOff + n) |-> i]
  /\ \E n \in 0..MaxAbWritten : indexSize = blockOff + n
  /\ indexFile = { s \in 1..Len(dataFile) : startBlockIndex(s) < indexSize }
  /\ startBlockIdx = blockOff - 1
  /\ blockIdx = indexSize - 1
  /\ hCount = Len(dataFile) - dataOff
  /\ rawData = IF syncComplete THEN <<>> ELSE SubSeq(dataFile, dataOff + 1, Len(dataFile))
  /\ rawBlock = rawData
  /\ rawWindow = IF syncComplete THEN <<>> ELSE SubSeq(winFile, winOff + 1, Len(winFile))
  /\ dbCount = dataOff
  /\ upperSeq = Len(dataFile)
  /\ startSizes = [data |-> dataOff, index |-> blockOff, window |-> winOff,
                   blockIdx |-> startBlockIdx, count |-> dbCount]
  /\ syncStatusOk = TRUE
  /\ pc = "abort"
  /\ dbSeq = Len(dataFile)
  /\ mem = {}
  /\ window = {}
  /\ logs = [t \in 1..MaxLogSeq |-> {}]
  /\ dbLogSeq = 1
  /\ dataDur = <<>>
  /\ indexDur = {}
  /\ indexSizeDur = 1
  /\ winDur = <<>>
  /\ lastSyncSeq = 0
  /\ hLogSeq = 1
  /\ todo = {}
  /\ err1 = FALSE
  /\ flushFrom = "final"
  /\ drainedNow = {}
  /\ failedNow = FALSE
  /\ signalledNow = FALSE
  /\ syncRet = "none"
  /\ abortRan = FALSE
  /\ batches = {}
  /\ syncs = 1
  /\ faults = 0
  /\ crashes = 0
  /\ recovered = FALSE
  /\ abLast = NoCall
  /\ PoolIdle
  /\ LogIdle
  /\ OldExpIdle
  /\ lcVer = 0
  /\ lcDisk = [index |-> "empty", data |-> "empty", lock |-> "free", leaked |-> {}]
  /\ lcDb = NoDb
  /\ lcBg = [g \in Goroutines |-> "none"]
  /\ lcLate = {}
  /\ lcOpened = NoCall
  /\ lcClosed = NoCall
  /\ hdIn = NoHeader
  /\ hdBuf = <<>>
  /\ hdOut = NoHeader
  /\ hdBuf2 = <<>>
  /\ BatchIdle
  /\ WalIdle
  /\ IndexIdle
  /\ ExpireIdle
  /\ TrieIdle
  /\ WriteIdle

\* syncHandle.abort in which the call named by fault returns an error.  The
\* rollbacks of the writers and the lease change no file.
AbortRun(fault) ==
  /\ pc = "abort"
  /\ syncComplete' = syncComplete
  /\ abort(dbCount)
  /\ abLast' = [op |-> "abort", complete |-> syncComplete, fault |-> fault,
                calls |-> abortCalls(syncComplete, fault),
                err |-> abortErr(syncComplete, fault),
                sizes |-> <<Len(dataFile), indexSize, Len(winFile), blockIdx, dbCount>>]
  /\ abortRan' = ~syncComplete
  /\ pc' = "idle"
  /\ UNCHANGED <<dbCore, hSnap, durable, runInfo, err1, failedNow, syncRet, faults,
                 recovered>>
  /\ UNCHANGED <<batchVars, walVars, indexVars, expireVars, trieVars, writeVars,
                 lifeVars, hdVars, poolVars, logVars, oldExpVars>>

AbortNext == \E fault \in AbortFaults : AbortRun(fault)

SpecAbort == AbortInit /\ [][AbortNext]_vars

\* C30: an abort on an attempt that did not complete has called rollback on
\* the data, index and window writers and then lease.defrag and lease.write,
\* whichever of the rollbacks returned an error; an abort on a complete
\* attempt has truncated nothing and rolled nothing back.
AbortRollsBackAll ==
  abLast # NoCall =>
    IF abLast.complete
      THEN /\ abLast.calls = <<>>
           /\ abLast.sizes = <<Len(dataFile), indexSize, Len(winFile), blockIdx, dbCount>>
      ELSE /\ {"dataWriter.rollback", "blockWriter.rollback", "windowWriter.rollback",
               "lease.defrag", "lease.write"} \subseteq Range(abLast.calls)
           /\ abLast.calls[Len(abLast.calls)] = "lease.write"

\* The claim holds for the aborts in which no rollback returns an error.
AbortRollsBackAllUnlessRollbackFails ==
  (abLast # NoCall /\ abLast.fault \in {"none", "leaseWrite"}) => AbortRollsBackAll

\* C31: right after abort ran on an attempt that was not complete, DB.count
\* is what it was when startSync ran.
AbortRestoresCount == abortRan => dbCount = startSizes.count

\* There is nothing to take back when no flush of the attempt went through
\* its fsync before the abort: incount runs after DB.sync only.
AbortKeepsCountOfFirstFlush ==
  (abortRan /\ Len(dataDur) <= startSizes.data) => dbCount = startSizes.count

\* The packed entry of the i-th pending write of batch b, as writeInternal
\* reads it from the buffer.
pendingEntry(b, i) == wrBatch[b].buffer[wrBatch[b].pendingWrites[i].offset + ScratchLen + 1]

\* The i-th pending write of batch b is in the memtable, the trie and the
\* time window.
Inserted(b, i) ==
  /\ \E m \in wrDb.mem : m.b = b /\ m.seq = pendingEntry(b, i).seq
  /\ pendingEntry(b, i).topic \in wrDb.trie
  /\ pendingEntry(b, i).seq \in wrDb.window

\* The ungrouped batches whose Write returned nil.
WrittenNil == { b \in Batches : wrWrote[b] = "nil" /\ ~wrBatch[b].grouped }

\* C32: when Write returned nil for an ungrouped batch, every pending entry
\* that is not a tombstone is in the memtable, the trie and the time window.
WriteNilInsertedAll ==
  \A b \in WrittenNil : \A i \in DOMAIN wrBatch[b].pendingWrites :
     ~wrBatch[b].pendingWrites[i].delFlag => Inserted(b, i)

\* The entries that come before the first tombstone of the batch are
\* inserted.
WriteNilInsertedUpToTombstone ==
  \A b \in WrittenNil : \A i \in DOMAIN wrBatch[b].pendingWrites :
     (\A j \in 1..i : ~wrBatch[b].pendingWrites[j].delFlag) => Inserted(b, i)

(***************************************************************************)
(*          Batch.Commit, Batch.Abort, Batch.Reset AND THE BUFFER POOL     *)
(***************************************************************************)

\* Bound: the capacity of BufferPool.buf (maxPoolSize in the source).
PoolCap == 2

\* Bound: the number of calls made on one batch.
MaxPoolCalls == 3

\* BufferPool.Get: a buffer of the pool if there is one, a new one otherwise.
\* Buffers are numbered in the order of their creation.
poolGet(pool, fresh) ==
  IF pool # <<>> THEN [buf |-> Head(pool), pool |-> Tail(pool), fresh |-> fresh]
  ELSE [buf |-> fresh + 1, pool |-> pool, fresh |-> fresh + 1]

\* BufferPool.Put: the buffer is reset and sent to the pool unless the pool
\* is full.
poolPut(pool, buf) == IF Len(pool) < PoolCap THEN Append(pool, buf) ELSE pool

\* Batch.Abort: Reset, bufPool.Put(b.buffer), b.db = nil.  Reading b.db.bufPool
\* panics when b.db is nil.
batchAbortPool(bt, pool) ==
  IF ~bt.db
    THEN [bt |-> [bt EXCEPT !.pending = FALSE], pool |-> pool, panic |-> TRUE]
    ELSE [bt |-> [bt EXCEPT !.pending = FALSE, !.db = FALSE, !.puts = @ + 1],
          pool |-> poolPut(pool, bt.buffer), panic |-> FALSE]

\* Batch.Commit: Abort when there are no pending writes, db.commit otherwise.
batchCommitPool(bt, pool) ==
  IF ~bt.pending THEN batchAbortPool(bt, pool)
  ELSE [bt |-> bt, pool |-> pool, panic |-> FALSE]

PoolInit ==
  /\ plBatch = [b \in Batches |-> NoBatch]
  /\ plPool = <<>>
  /\ plFresh = 0
  /\ plLast = NoCall
  /\ LogIdle
  /\ OldExpIdle
  /\ abLast = NoCall
  /\ lcVer = 0
  /\ lcDisk = [index |-> "empty", data |-> "empty", lock |-> "free", leaked |-> {}]
  /\ lcDb = NoDb
  /\ lcBg = [g \in Goroutines |-> "none"]
  /\ lcLate = {}
  /\ lcOpened = NoCall
  /\ lcClosed = NoCall
  /\ hdIn = NoHeader
  /\ hdBuf = <<>>
  /\ hdOut = NoHeader
  /\ hdBuf2 = <<>>
  /\ BatchIdle
  /\ WalIdle
  /\ IndexIdle
  /\ SyncIdle
  /\ ExpireIdle
  /\ TrieIdle
  /\ WriteIdle

\* A panic that nobody recovers ends the program.
PoolRunning == IF plLast = NoCall THEN TRUE ELSE ~plLast.panic

PoolCalled(b, op, r) ==
  /\ plBatch' = [plBatch EXCEPT ![b] = [r.bt EXCEPT !.calls = @ + 1]]
  /\ plPool' = r.pool
  /\ plLast' = [op |-> op, b |-> b, panic |-> r.panic, before |-> plBatch[b]]
  /\ UNCHANGED <<plFresh, abLast, lifeVars, hdVars, logVars, oldExpVars>>
  /\ UNCHANGED notOpen

\* db.batch(): a batch with a buffer from the pool.  A batch that was aborted
\* may be replaced by a new one.
PoolNewBatch(b) ==
  /\ PoolRunning
  /\ plBatch[b].state = "none" \/ (~plBatch[b].db /\ plBatch[b].calls < MaxPoolCalls)
  /\ LET g == poolGet(plPool, plFresh)
     IN /\ plBatch' = [plBatch EXCEPT ![b] =
                         [state |-> "live", db |-> TRUE, buffer |-> g.buf,
                          pending |-> FALSE, puts |-> 0, calls |-> plBatch[b].calls]]
        /\ plPool' = g.pool
        /\ plFresh' = g.fresh
  /\ plLast' = NoCall
  /\ UNCHANGED <<abLast, lifeVars, hdVars, logVars, oldExpVars>>
  /\ UNCHANGED notOpen

MayCall(b) ==
  /\ PoolRunning
  /\ plBatch[b].state = "live"
  /\ plBatch[b].calls < MaxPoolCalls

\* b.Put and b.Write on a batch that was not aborted: pendingWrites and the
\* buffer are not empty.
PoolPutWrite(b) ==
  /\ MayCall(b)
  /\ plBatch[b].db
  /\ PoolCalled(b, "Write", [bt |-> [plBatch[b] EXCEPT !.pending = TRUE], pool |-> plPool,
                             panic |-> FALSE])

\* b.Commit()
PoolCommit(b) ==
  /\ MayCall(b)
  /\ PoolCalled(b, "Commit", batchCommitPool(plBatch[b], plPool))

\* b.Abort()
PoolAbort(b) ==
  /\ MayCall(b)
  /\ PoolCalled(b, "Abort", batchAbortPool(plBatch[b], plPool))

\* b.Reset()
PoolReset(b) ==
  /\ MayCall(b)
  /\ PoolCalled(b, "Reset", [bt |-> [plBatch[b] EXCEPT !.pending = FALSE], pool |-> plPool,
                             panic |-> FALSE])

PoolNext ==
  \/ \E b \in Batches : PoolNewBatch(b)
  \/ \E b \in Batches : PoolPutWrite(b)
  \/ \E b \in Batches : PoolCommit(b)
  \/ \E b \in Batches : PoolAbort(b)
  \/ \E b \in Batches : PoolReset(b)

SpecPool == PoolInit /\ [][PoolNext]_vars

\* Each batch has put its buffer at most once, no buffer is in the pool
\* twice, no buffer of the pool belongs to a batch that was not aborted, and
\* no two such batches share a buffer.
BufferPooledAtMostOnce ==
  /\ \A b \in Batches : plBatch[b].puts <= 1
  /\ \A i, j \in DOMAIN plPool : plPool[i] = plPool[j] => i = j
  /\ \A b \in Batches : plBatch[b].db => \A i \in DOMAIN plPool : plPool[i] # plBatch[b].buffer
  /\ \A a, b \in Batches :
       (plBatch[a].db /\ plBatch[b].db /\ plBatch[a].buffer = plBatch[b].buffer) => a = b

\* C33: for any sequence of Commit, Abort and Reset calls a batch returns its
\* buffer to the pool at most once, no buffer is in the pool twice or with
\* two owners, and no call panics.
AbortTwiceIsSafe ==
  /\ BufferPooledAtMostOnce
  /\ PoolRunning


\* ------------------------------------------------------------------------
\* THE TINY-LOG POOL (memdb/tinylog.go)
\*
\* newLogPool starts one write loop, one commit loop and logCount
\* dispatchers.  The write loop sends the current tiny log to writeQueue on
\* every tick and once more when stop is closed, then closes writeQueue.  A
\* dispatcher moves a tiny log from writeQueue to logQueue, and closes
\* logQueue when it finds writeQueue closed.  The commit loop hands the
\* tiny logs of logQueue to tinyCommit.  A panic in any goroutine ends the
\* program, so no step is taken after one.
\* ------------------------------------------------------------------------

\* Bound: the capacity of logQueue (_LogOptions.poolCapacity).
LogQueueCap == 1

\* Bound: the number of tiny logs the write loop creates.
MaxTinyLogs == 3

\* The capacity of writeQueue: make(chan *_TinyLog, 1).
writeQueueCap == 1

Dispatchers == 1..tlCount

\* How many times x occurs in the sequence q.
Occurrences(x, q) == Cardinality({k \in 1..Len(q) : q[k] = x})

\* A send that has room: the channel with x appended.
chanSend(ch, x) == [ch EXCEPT !.buf = Append(@, x)]

\* A receive of the first element.
chanRecv(ch) == [ch EXCEPT !.buf = Tail(@)]

\* close(ch).
chanClose(ch) == [ch EXCEPT !.closed = TRUE]

LogInit ==
  /\ tlCount \in 1..MaxLogCount
  /\ tlWriteQ = EmptyChan
  /\ tlLogQ = EmptyChan
  /\ tlStop = FALSE
  /\ tlWg = 1 + tlCount
  /\ tlPc = [writer |-> "select", commit |-> "select", closer |-> "idle"]
  /\ tlDisp = [d \in 1..MaxLogCount |->
                 [pc |-> IF d <= tlCount THEN "recv" ELSE "none", held |-> 0]]
  /\ tlLog = 1
  /\ tlQueued = {}
  /\ tlCommitted = <<>>
  /\ tlPanic = "none"
  /\ OldExpIdle
  /\ abLast = NoCall
  /\ PoolIdle
  /\ lcVer = 0
  /\ lcDisk = [index |-> "empty", data |-> "empty", lock |-> "free", leaked |-> {}]
  /\ lcDb = NoDb
  /\ lcBg = [g \in Goroutines |-> "none"]
  /\ lcLate = {}
  /\ lcOpened = NoCall
  /\ lcClosed = NoCall
  /\ hdIn = NoHeader
  /\ hdBuf = <<>>
  /\ hdOut = NoHeader
  /\ hdBuf2 = <<>>
  /\ BatchIdle
  /\ WalIdle
  /\ IndexIdle
  /\ SyncIdle
  /\ ExpireIdle
  /\ TrieIdle
  /\ WriteIdle

LogRunning == tlPanic = "none"

notLog == <<abLast, poolVars, lifeVars, hdVars, oldExpVars, notOpen>>

\* writeLoop, case <-writeC: the ticker fired.
WriteSelectTick ==
  /\ LogRunning
  /\ tlPc.writer = "select"
  /\ tlLog < MaxTinyLogs
  /\ tlPc' = [tlPc EXCEPT !.writer = "tick"]
  /\ UNCHANGED <<tlCount, tlWriteQ, tlLogQ, tlStop, tlWg, tlDisp, tlLog, tlQueued,
                 tlCommitted, tlPanic>>
  /\ UNCHANGED notLog

\* writeLoop, case <-p.stop.
WriteSelectStop ==
  /\ LogRunning
  /\ tlPc.writer = "select"
  /\ tlStop
  /\ tlPc' = [tlPc EXCEPT !.writer = "stop"]
  /\ UNCHANGED <<tlCount, tlWriteQ, tlLogQ, tlStop, tlWg, tlDisp, tlLog, tlQueued,
                 tlCommitted, tlPanic>>
  /\ UNCHANGED notLog

\* _LogPool.write: p.writeQueue <- p.tinyLog, which waits for room.  After
\* a tick newTinyLog replaces the tiny log; after stop the loop goes on to
\* close writeQueue.
WriteSend ==
  /\ LogRunning
  /\ tlPc.writer \in {"tick", "stop"}
  /\ Len(tlWriteQ.buf) < writeQueueCap
  /\ tlWriteQ' = chanSend(tlWriteQ, tlLog)
  /\ tlQueued' = tlQueued \cup {tlLog}
  /\ IF tlPc.writer = "tick"
       THEN /\ tlLog' = tlLog + 1
            /\ tlPc' = [tlPc EXCEPT !.writer = "select"]
       ELSE /\ tlLog' = tlLog
            /\ tlPc' = [tlPc EXCEPT !.writer = "closeW"]
  /\ UNCHANGED <<tlCount, tlLogQ, tlStop, tlWg, tlDisp, tlCommitted, tlPanic>>
  /\ UNCHANGED notLog

\* writeLoop: close(p.writeQueue); return.
WriteClose ==
  /\ LogRunning
  /\ tlPc.writer = "closeW"
  /\ tlWriteQ' = chanClose(tlWriteQ)
  /\ tlPc' = [tlPc EXCEPT !.writer = "done"]
  /\ UNCHANGED <<tlCount, tlLogQ, tlStop, tlWg, tlDisp, tlLog, tlQueued,
                 tlCommitted, tlPanic>>
  /\ UNCHANGED notLog

\* dispatch: tinyLog, ok := <-p.writeQueue with ok true.
DispRecv(d) ==
  /\ LogRunning
  /\ tlDisp[d].pc = "recv"
  /\ tlWriteQ.buf # <<>>
  /\ tlDisp' = [tlDisp EXCEPT ![d] = [pc |-> "send", held |-> Head(tlWriteQ.buf)]]
  /\ tlWriteQ' = chanRecv(tlWriteQ)
  /\ UNCHANGED <<tlCount, tlLogQ, tlStop, tlWg, tlPc, tlLog, tlQueued,
                 tlCommitted, tlPanic>>
  /\ UNCHANGED notLog

\* dispatch: writeQueue is closed and empty: close(p.logQueue);
\* p.stopWg.Done(); return.  Closing a closed channel panics.
DispClose(d) ==
  /\ LogRunning
  /\ tlDisp[d].pc = "recv"
  /\ tlWriteQ.buf = <<>>
  /\ tlWriteQ.closed
  /\ IF tlLogQ.closed
       THEN /\ tlPanic' = "close of closed channel"
            /\ UNCHANGED <<tlLogQ, tlWg, tlDisp>>
       ELSE /\ tlLogQ' = chanClose(tlLogQ)
            /\ tlWg' = tlWg - 1
            /\ tlDisp' = [tlDisp EXCEPT ![d].pc = "done"]
            /\ tlPanic' = tlPanic
  /\ UNCHANGED <<tlCount, tlWriteQ, tlStop, tlPc, tlLog, tlQueued, tlCommitted>>
  /\ UNCHANGED notLog

\* dispatch: select { case p.logQueue <- tinyLog: default: goto WAIT }.
\* A send on a closed channel panics; with no room the default case is
\* taken and, after the sleep at WAIT, the loop starts again without the
\* tiny log.
DispSend(d) ==
  /\ LogRunning
  /\ tlDisp[d].pc = "send"
  /\ IF tlLogQ.closed
       THEN /\ tlPanic' = "send on closed channel"
            /\ UNCHANGED <<tlLogQ, tlDisp>>
       ELSE /\ tlPanic' = tlPanic
            /\ tlDisp' = [tlDisp EXCEPT ![d] = [pc |-> "recv", held |-> 0]]
            /\ tlLogQ' = IF Len(tlLogQ.buf) < LogQueueCap
                           THEN chanSend(tlLogQ, tlDisp[d].held)
                           ELSE tlLogQ
  /\ UNCHANGED <<tlCount, tlWriteQ, tlStop, tlWg, tlPc, tlLog, tlQueued, tlCommitted>>
  /\ UNCHANGED notLog

\* commitLoop, case tinyLog := <-p.logQueue before stop was seen.
CommitRecv ==
  /\ LogRunning
  /\ tlPc.commit = "select"
  /\ tlLogQ.buf # <<>>
  /\ tlCommitted' = Append(tlCommitted, Head(tlLogQ.buf))
  /\ tlLogQ' = chanRecv(tlLogQ)
  /\ UNCHANGED <<tlCount, tlWriteQ, tlStop, tlWg, tlPc, tlDisp, tlLog, tlQueued, tlPanic>>
  /\ UNCHANGED notLog

\* commitLoop, case <-p.stop: enter the loop that empties logQueue.
CommitSelectStop ==
  /\ LogRunning
  /\ tlPc.commit = "select"
  /\ tlStop
  /\ tlPc' = [tlPc EXCEPT !.commit = "drain"]
  /\ UNCHANGED <<tlCount, tlWriteQ, tlLogQ, tlStop, tlWg, tlDisp, tlLog, tlQueued,
                 tlCommitted, tlPanic>>
  /\ UNCHANGED notLog

\* commitLoop after stop: a tiny log received from logQueue is committed.
CommitDrain ==
  /\ LogRunning
  /\ tlPc.commit = "drain"
  /\ tlLogQ.buf # <<>>
  /\ tlCommitted' = Append(tlCommitted, Head(tlLogQ.buf))
  /\ tlLogQ' = chanRecv(tlLogQ)
  /\ UNCHANGED <<tlCount, tlWriteQ, tlStop, tlWg, tlPc, tlDisp, tlLog, tlQueued, tlPanic>>
  /\ UNCHANGED notLog

\* commitLoop after stop: logQueue is closed and empty: p.stopWg.Done();
\* return.
CommitExit ==
  /\ LogRunning
  /\ tlPc.commit = "drain"
  /\ tlLogQ.buf = <<>>
  /\ tlLogQ.closed
  /\ tlWg' = tlWg - 1
  /\ tlPc' = [tlPc EXCEPT !.commit = "done"]
  /\ UNCHANGED <<tlCount, tlWriteQ, tlLogQ, tlStop, tlDisp, tlLog, tlQueued,
                 tlCommitted, tlPanic>>
  /\ UNCHANGED notLog

\* _LogPool.close: stopOnce closes stop; the caller then waits in
\* stopWg.Wait().
LogClose ==
  /\ LogRunning
  /\ tlPc.closer = "idle"
  /\ tlStop' = TRUE
  /\ tlPc' = [tlPc EXCEPT !.closer = "wait"]
  /\ UNCHANGED <<tlCount, tlWriteQ, tlLogQ, tlWg, tlDisp, tlLog, tlQueued,
                 tlCommitted, tlPanic>>
  /\ UNCHANGED notLog

\* _LogPool.close: stopWg.Wait() returns when the counter is zero.
LogCloseReturn ==
  /\ LogRunning
  /\ tlPc.closer = "wait"
  /\ tlWg = 0
  /\ tlPc' = [tlPc EXCEPT !.closer = "returned"]
  /\ UNCHANGED <<tlCount, tlWriteQ, tlLogQ, tlStop, tlWg, tlDisp, tlLog, tlQueued,
                 tlCommitted, tlPanic>>
  /\ UNCHANGED notLog

LogDispRecv == \E d \in Dispatchers : DispRecv(d)

LogDispClose == \E d \in Dispatchers : DispClose(d)

LogDispSend == \E d \in Dispatchers : DispSend(d)

LogNext ==
  \/ WriteSelectTick
  \/ WriteSelectStop
  \/ WriteSend
  \/ WriteClose
  \/ LogDispRecv
  \/ LogDispClose
  \/ LogDispSend
  \/ CommitRecv
  \/ CommitSelectStop
  \/ CommitDrain
  \/ CommitExit
  \/ LogClose
  \/ LogCloseReturn

SpecLog == LogInit /\ [][LogNext]_vars

\* Every goroutine that can take a step is scheduled in the end, and close
\* is called in the end; the ticker is free to fire or not.
SpecLogFair ==
  /\ SpecLog
  /\ WF_vars(WriteSelectStop) /\ WF_vars(WriteSend) /\ WF_vars(WriteClose)
  /\ WF_vars(LogDispRecv) /\ WF_vars(LogDispClose) /\ WF_vars(LogDispSend)
  /\ WF_vars(CommitRecv) /\ WF_vars(CommitSelectStop) /\ WF_vars(CommitDrain)
  /\ WF_vars(CommitExit) /\ WF_vars(LogClose) /\ WF_vars(LogCloseReturn)

\* C34 (helper, holds): no tiny log is handed to tinyCommit twice, and only
\* tiny logs that were sent to writeQueue are handed to it.
TinyLogCommittedAtMostOnce ==
  \A l \in 1..MaxTinyLogs :
    /\ Occurrences(l, tlCommitted) <= 1
    /\ Occurrences(l, tlCommitted) = 1 => l \in tlQueued

\* C34 (as stated, violated): when close has returned, every tiny log that
\* was sent to writeQueue has been handed to tinyCommit exactly once.
CloseReturnsAfterAllCommitted ==
  tlPc.closer = "returned" =>
    \A l \in tlQueued : Occurrences(l, tlCommitted) = 1

\* C34 (as stated, violated in SpecLogFair): a tiny log sent to writeQueue
\* is handed to tinyCommit in the end.
QueuedLogCommittedInTheEnd ==
  \A l \in 1..MaxTinyLogs :
    (l \in tlQueued) ~> (Occurrences(l, tlCommitted) = 1)

\* C37 (helper, holds): with one dispatcher no goroutine panics, and close
\* returns only when the dispatcher and the commit loop have returned.
OneDispatcherClosesCleanly ==
  /\ tlCount = 1 => tlPanic = "none"
  /\ tlPc.closer = "returned" =>
       /\ tlPc.commit = "done"
       /\ \A d \in Dispatchers : tlDisp[d].pc = "done"

\* C37 (as stated, violated): for every logCount, logQueue is closed once
\* and nothing is sent on it after it was closed, so no goroutine panics.
LogQueueClosedOnce == tlPanic = "none"


\* ------------------------------------------------------------------------
\* DB.expireOldEntries (the first half of db.go)
\*
\* The loop over the expired entries takes db.mu for every entry that passes
\* the presence filter and defers the Unlock: the deferred calls run when
\* the function returns, not at the end of the round.  db.mu is a
\* sync.RWMutex, which the goroutine that holds it cannot take again.
\* ------------------------------------------------------------------------

\* Bound: the number of entries timeWindow.expireOldEntries hands out.
MaxExpired == 4

\* The calls of other goroutines that take db.mu.
LaterCalls == {"put", "delete", "Get", "Close"}

OldExpInit ==
  /\ eoTodo \in UNION { [1..n -> BOOLEAN] : n \in 0..MaxExpired }
  /\ eoPc = "loop"
  /\ eoMu = "free"
  /\ eoDefers = 0
  /\ eoLater = "none"
  /\ LogIdle
  /\ abLast = NoCall
  /\ PoolIdle
  /\ lcVer = 0
  /\ lcDisk = [index |-> "empty", data |-> "empty", lock |-> "free", leaked |-> {}]
  /\ lcDb = NoDb
  /\ lcBg = [g \in Goroutines |-> "none"]
  /\ lcLate = {}
  /\ lcOpened = NoCall
  /\ lcClosed = NoCall
  /\ hdIn = NoHeader
  /\ hdBuf = <<>>
  /\ hdOut = NoHeader
  /\ hdBuf2 = <<>>
  /\ BatchIdle
  /\ WalIdle
  /\ IndexIdle
  /\ SyncIdle
  /\ ExpireIdle
  /\ TrieIdle
  /\ WriteIdle

notOldExp == <<abLast, poolVars, lifeVars, hdVars, logVars, notOpen>>

\* The loop: an entry that fails db.filter.Test is passed over.
ExpireSkip ==
  /\ eoPc = "loop"
  /\ eoTodo # <<>>
  /\ ~Head(eoTodo)
  /\ eoTodo' = Tail(eoTodo)
  /\ UNCHANGED <<eoPc, eoMu, eoDefers, eoLater>>
  /\ UNCHANGED notOldExp

\* The loop: db.mu.Lock(), which waits until the mutex is free, and
\* defer db.mu.Unlock().
ExpireLock ==
  /\ eoPc = "loop"
  /\ eoTodo # <<>>
  /\ Head(eoTodo)
  /\ eoMu = "free"
  /\ eoMu' = "expirer"
  /\ eoDefers' = eoDefers + 1
  /\ eoPc' = "body"
  /\ UNCHANGED <<eoTodo, eoLater>>
  /\ UNCHANGED notOldExp

\* The loop: the rest of the round, which ends the round on every path.
ExpireEntry ==
  /\ eoPc = "body"
  /\ eoTodo' = Tail(eoTodo)
  /\ eoPc' = "loop"
  /\ UNCHANGED <<eoMu, eoDefers, eoLater>>
  /\ UNCHANGED notOldExp

\* The return: the deferred Unlock calls run.
ExpireReturn ==
  /\ eoPc = "loop"
  /\ eoTodo = <<>>
  /\ eoMu' = IF eoDefers > 0 THEN "free" ELSE eoMu
  /\ eoDefers' = 0
  /\ eoPc' = "returned"
  /\ UNCHANGED <<eoTodo, eoLater>>
  /\ UNCHANGED notOldExp

\* Another goroutine takes db.mu in put, delete, Get or Close.
LaterLock(c) ==
  /\ eoLater = "none"
  /\ eoMu = "free"
  /\ eoMu' = "later"
  /\ eoLater' = c
  /\ UNCHANGED <<eoTodo, eoPc, eoDefers>>
  /\ UNCHANGED notOldExp

\* The call of the other goroutine returns and gives db.mu back.
LaterUnlock ==
  /\ eoLater # "none"
  /\ eoMu' = "free"
  /\ eoLater' = "none"
  /\ UNCHANGED <<eoTodo, eoPc, eoDefers>>
  /\ UNCHANGED notOldExp

LaterCall == \E c \in LaterCalls : LaterLock(c)

OldExpNext ==
  \/ ExpireSkip
  \/ ExpireLock
  \/ ExpireEntry
  \/ ExpireReturn
  \/ LaterCall
  \/ LaterUnlock

SpecOldExp == OldExpInit /\ [][OldExpNext]_vars

\* Every goroutine that can take a step takes one in the end.
SpecOldExpFair ==
  /\ SpecOldExp
  /\ WF_vars(ExpireSkip) /\ WF_vars(ExpireEntry) /\ WF_vars(ExpireReturn)
  /\ SF_vars(ExpireLock) /\ WF_vars(LaterUnlock)

\* expireOldEntries is at db.mu.Lock() while the mutex is held by its own
\* goroutine.
WaitsForItself ==
  /\ eoPc = "loop"
  /\ eoTodo # <<>>
  /\ Head(eoTodo)
  /\ eoMu = "expirer"

\* C38 (helper, holds): expireOldEntries never has more than one deferred
\* Unlock, and when it has returned it does not hold db.mu.
ExpireReturnFreesMu ==
  /\ eoDefers <= 1
  /\ eoPc = "returned" => eoMu # "expirer"

\* C38 (helper, violated in SpecOldExpFair): expireOldEntries returns.
ExpireReturns == <>(eoPc = "returned")

\* C38 (as stated, violated): expireOldEntries never waits for db.mu while
\* its own goroutine holds it, and it does not hold db.mu when it has
\* returned.
ExpireNeverBlocksOnMu ==
  /\ ~WaitsForItself
  /\ eoPc = "returned" => eoMu # "expirer"

====
